---------------------------- MODULE Spec2Model ----------------------------
(***************************************************************************)
(* AntCraft: peer-to-peer lockstep.  A model of the wire codec             *)
(* (src/networking/serialization.py), the datagram peer                    *)
(* (src/networking/udp_peer.py), the joiner's connect loop (src/main.py)   *)
(* and the lockstep game loop (src/game.py).                               *)
(*                                                                         *)
(* Datagrams are sequences of bytes (0..255) exactly as struct packs them, *)
(* big-endian.  A Python exception is a result record whose exc field is   *)
(* the exception's name ("" when the call returns).                        *)
(***************************************************************************)
EXTENDS Integers, Sequences, FiniteSets, TLC

VARIABLES
    pc,          \* per peer: where its process is (main.py / Game.run)
    udp,         \* per peer: the UdpNetworkPeer object
    game,        \* per peer: the Game object (lockstep fields and GameState)
    ticks_left,  \* per peer: iterations left of _update_playing's for loop
    recv_age,    \* per peer: time.monotonic() - _last_recv_time, in classes
    net,         \* per address: datagrams in flight to it, <<data, source>>
    executed,    \* history, per peer: the (tick, commands) of each advance_tick call
    accepted,    \* history, per peer: ticks whose COMMANDS frame was stored
    hash_log,    \* history, per peer: tick -> digest computed by _check_hash
    hash_seen,   \* history, per peer: ticks whose HASH_CHECK frame was handled
    crash,       \* history, per peer: where an exception escaped ("" if none)
    issued,      \* per peer: commands the input layer has produced so far
    injected,    \* datagrams a third party has sent so far
    c_pc,        \* codec round trip: "in", "encoded", "decoded"
    c_in,        \* codec round trip: the (tick, commands) to encode
    c_enc,       \* codec round trip: result of encode_commands
    c_dec,       \* codec round trip: result of decode_commands
    sim,         \* the simulation: a GameState (tilemap, entities, jelly, rng, visibility)
    sim_hist,    \* history of the simulation: what the last step applied and removed
    calc         \* the arguments and result of a rate distribution over ticks

netVars   == <<pc, udp, game, ticks_left, recv_age, net, executed, accepted,
               hash_log, hash_seen, crash, issued, injected>>
codecVars == <<c_pc, c_in, c_enc, c_dec>>
simVars   == <<sim, sim_hist, calc>>
vars      == <<netVars, codecVars, simVars>>

-----------------------------------------------------------------------------
(* Program constants.                                                      *)

INPUT_DELAY_TICKS   == 2
HASH_CHECK_INTERVAL == 10
SEND_REDUNDANCY     == 3
TICK_RATE           == 10

\* MessageType
CONNECT     == 1
CONNECT_ACK == 2
COMMANDS    == 3
TICK_ACK    == 4
HASH_CHECK  == 5
DESYNC      == 6
DISCONNECT  == 7
MessageTypes == {CONNECT, CONNECT_ACK, COMMANDS, TICK_ACK, HASH_CHECK, DESYNC, DISCONNECT}

\* CommandType
MOVE        == 1
STOP        == 2
HARVEST     == 3
SPAWN_ANT   == 4
MERGE_QUEEN == 5
FOUND_HIVE  == 6
ATTACK      == 7
CommandTypes == {MOVE, STOP, HARVEST, SPAWN_ANT, MERGE_QUEEN, FOUND_HIVE, ATTACK}

MSG_HEADER_size        == 3
CMD_HEADER_size        == 8
CMD_ENTITY_size        == 4
CMD_TARGET_size        == 12
CONNECT_ACK_FMT_size   == 9
HASH_CHECK_HEADER_size == 4

-----------------------------------------------------------------------------
(* struct: big-endian packing.  Values of 2^31 and more are outside the    *)
(* integers of the model checker; no value of the model reaches them, so   *)
(* the upper range check of the unsigned 32-bit formats is not modelled.   *)

\* Python evaluates an argument once, before the call.  Where an operator
\* below is applied to the result of another, the result is bound once:
\* CHOOSE R \in {F(x) : x \in {e}} : TRUE is F(e), with e evaluated one time.

Ok(v)     == [exc |-> "", val |-> v]
Raise(e)  == [exc |-> e, val |-> <<>>]

PackU8(v)  == IF v \in 0..255 THEN Ok(<<v>>) ELSE Raise("struct.error")
PackU16(v) == IF v \in 0..65535 THEN Ok(<<v \div 256, v % 256>>)
              ELSE Raise("struct.error")
U32Bytes(v) == <<v \div 16777216, (v \div 65536) % 256, (v \div 256) % 256, v % 256>>
PackU32(v) == IF v >= 0 THEN Ok(U32Bytes(v)) ELSE Raise("struct.error")
PackI32(v) == IF v >= 0 THEN Ok(U32Bytes(v))
              ELSE LET w == U32Bytes(v + 2147483647 + 1)
                   IN  Ok(<<w[1] + 128, w[2], w[3], w[4]>>)

\* data[offset : offset + size]
Slice(data, offset, size) ==
    SubSeq(data, offset + 1, IF offset + size <= Len(data) THEN offset + size ELSE Len(data))
\* struct.unpack_from needs size bytes from offset on
HasBytes(data, offset, size) == Len(data) - offset >= size

UnpackU8(data, o)  == data[o + 1]
UnpackU16(data, o) == data[o + 1] * 256 + data[o + 2]
UnpackU32(data, o) == data[o + 1] * 16777216 + data[o + 2] * 65536
                      + data[o + 3] * 256 + data[o + 4]
UnpackI32(data, o) == (IF data[o + 1] >= 128 THEN data[o + 1] - 256 ELSE data[o + 1]) * 16777216
                      + data[o + 2] * 65536 + data[o + 3] * 256 + data[o + 4]

\* the first exception among results, in evaluation order
FirstExc(rs) == LET bad == {i \in 1..Len(rs) : rs[i].exc # ""}
                IN  IF bad = {} THEN ""
                    ELSE rs[CHOOSE i \in bad : \A j \in bad : i <= j].exc

RECURSIVE Concat(_)
Concat(ss) == IF ss = <<>> THEN <<>> ELSE Head(ss) \o Concat(Tail(ss))

-----------------------------------------------------------------------------
(* serialization.py                                                       *)

Command(ct, p, t, ids, tx, ty, te) ==
    [command_type |-> ct, player_id |-> p, tick |-> t, entity_ids |-> ids,
     target_x |-> tx, target_y |-> ty, target_entity_id |-> te]

encode_message(msg_type, payload) ==
    LET h == <<PackU8(msg_type), PackU16(Len(payload))>>
    IN  IF FirstExc(h) # "" THEN Raise(FirstExc(h))
        ELSE Ok(h[1].val \o h[2].val \o payload)

decode_message(data) ==
    IF Len(data) < MSG_HEADER_size THEN [exc |-> "ValueError", msg_type |-> 0, payload |-> <<>>]
    ELSE LET msg_type_raw == UnpackU8(data, 0)
             payload_len  == UnpackU16(data, 1)
             payload      == Slice(data, MSG_HEADER_size, payload_len)
         IN  IF msg_type_raw \notin MessageTypes
                 THEN [exc |-> "ValueError", msg_type |-> 0, payload |-> <<>>]
             ELSE IF Len(payload) < payload_len
                 THEN [exc |-> "ValueError", msg_type |-> 0, payload |-> <<>>]
             ELSE [exc |-> "", msg_type |-> msg_type_raw, payload |-> payload]

RECURSIVE EncodeEntityIds(_)
EncodeEntityIds(ids) ==
    IF ids = <<>> THEN Ok(<<>>)
    ELSE LET h == PackU32(Head(ids))
             t == EncodeEntityIds(Tail(ids))
         IN  IF h.exc # "" THEN h ELSE IF t.exc # "" THEN t ELSE Ok(h.val \o t.val)

EncodeCommand(cmd) ==
    LET hd == <<PackU8(cmd.command_type), PackU8(cmd.player_id), PackU32(cmd.tick),
                PackU16(Len(cmd.entity_ids))>>
        es == EncodeEntityIds(cmd.entity_ids)
        tg == <<PackI32(cmd.target_x), PackI32(cmd.target_y),
                PackU32(cmd.target_entity_id)>>
    IN  IF FirstExc(hd) # "" THEN Raise(FirstExc(hd))
        ELSE IF es.exc # "" THEN es
        ELSE IF FirstExc(tg) # "" THEN Raise(FirstExc(tg))
        ELSE Ok(Concat([i \in 1..4 |-> hd[i].val]) \o es.val
                \o Concat([i \in 1..3 |-> tg[i].val]))

RECURSIVE EncodeCommandList(_)
EncodeCommandList(commands) ==
    IF commands = <<>> THEN Ok(<<>>)
    ELSE LET h == EncodeCommand(Head(commands))
         IN  IF h.exc # "" THEN h
             ELSE LET t == EncodeCommandList(Tail(commands))
                  IN  IF t.exc # "" THEN t ELSE Ok(h.val \o t.val)

encode_commands(commands, tick) ==
    LET hd == <<PackU32(tick), PackU16(Len(commands))>>
    IN  IF FirstExc(hd) # "" THEN Raise(FirstExc(hd))
        ELSE LET body == EncodeCommandList(commands)
             IN  IF body.exc # "" THEN body
                 ELSE Ok(hd[1].val \o hd[2].val \o body.val)

RECURSIVE DecodeEntityIds(_, _, _)
DecodeEntityIds(data, offset, n) ==
    IF n = 0 THEN [exc |-> "", ids |-> <<>>, offset |-> offset]
    ELSE IF ~HasBytes(data, offset, CMD_ENTITY_size)
        THEN [exc |-> "struct.error", ids |-> <<>>, offset |-> offset]
    ELSE LET eid  == UnpackU32(data, offset)
             rest == DecodeEntityIds(data, offset + CMD_ENTITY_size, n - 1)
         IN  [rest EXCEPT !.ids = <<eid>> \o rest.ids]

RECURSIVE DecodeCommandList(_, _, _)
DecodeCommandList(data, offset, n) ==
    IF n = 0 THEN [exc |-> "", commands |-> <<>>]
    ELSE IF ~HasBytes(data, offset, CMD_HEADER_size)
        THEN [exc |-> "struct.error", commands |-> <<>>]
    ELSE LET cmd_type   == UnpackU8(data, offset)
             player_id  == UnpackU8(data, offset + 1)
             tick       == UnpackU32(data, offset + 2)
             n_entities == UnpackU16(data, offset + 6)
             es         == DecodeEntityIds(data, offset + CMD_HEADER_size, n_entities)
         IN  IF es.exc # "" THEN [exc |-> es.exc, commands |-> <<>>]
             ELSE IF ~HasBytes(data, es.offset, CMD_TARGET_size)
                 THEN [exc |-> "struct.error", commands |-> <<>>]
             ELSE IF cmd_type \notin CommandTypes
                 THEN [exc |-> "ValueError", commands |-> <<>>]
             ELSE LET cmd  == Command(cmd_type, player_id, tick, es.ids,
                                      UnpackI32(data, es.offset),
                                      UnpackI32(data, es.offset + 4),
                                      UnpackU32(data, es.offset + 8))
                      rest == DecodeCommandList(data, es.offset + CMD_TARGET_size, n - 1)
                  IN  IF rest.exc # "" THEN rest
                      ELSE [exc |-> "", commands |-> <<cmd>> \o rest.commands]

decode_commands(data) ==
    IF ~HasBytes(data, 0, 4) THEN [exc |-> "struct.error", tick |-> 0, commands |-> <<>>]
    ELSE IF ~HasBytes(data, 4, 2) THEN [exc |-> "struct.error", tick |-> 0, commands |-> <<>>]
    ELSE LET body == DecodeCommandList(data, 6, UnpackU16(data, 4))
         IN  IF body.exc # "" THEN [exc |-> body.exc, tick |-> 0, commands |-> <<>>]
             ELSE [exc |-> "", tick |-> UnpackU32(data, 0), commands |-> body.commands]

\* the fields in another order than decode_connect_ack reads them: what C8
\* rules out
encode_connect_ack_swapped(seed, tick_rate, player_id) ==
    LET f == <<PackU32(tick_rate), PackU32(seed), PackU8(player_id)>>
    IN  IF FirstExc(f) # "" THEN Raise(FirstExc(f))
        ELSE Ok(f[1].val \o f[2].val \o f[3].val)

encode_connect_ack(seed, tick_rate, player_id) ==
    LET f == <<PackU32(seed), PackU32(tick_rate), PackU8(player_id)>>
    IN  IF FirstExc(f) # "" THEN Raise(FirstExc(f))
        ELSE Ok(f[1].val \o f[2].val \o f[3].val)

\* struct.Struct.unpack wants exactly the format's size
decode_connect_ack(data) ==
    IF Len(data) # CONNECT_ACK_FMT_size
        THEN [exc |-> "struct.error", seed |-> 0, tick_rate |-> 0, player_id |-> 0]
    ELSE [exc |-> "", seed |-> UnpackU32(data, 0), tick_rate |-> UnpackU32(data, 4),
          player_id |-> UnpackU8(data, 8)]

encode_hash_check(tick, state_hash) ==
    LET h == PackU32(tick)
    IN  IF h.exc # "" THEN h ELSE Ok(h.val \o state_hash)

decode_hash_check(data) ==
    IF ~HasBytes(data, 0, HASH_CHECK_HEADER_size)
        THEN [exc |-> "struct.error", tick |-> 0, state_hash |-> <<>>]
    ELSE [exc |-> "", tick |-> UnpackU32(data, 0),
          state_hash |-> Slice(data, HASH_CHECK_HEADER_size, Len(data))]


-----------------------------------------------------------------------------
(* Python dicts, as functions on a finite set of keys.                     *)

EmptyDict       == <<>>
DictHas(d, k)   == k \in DOMAIN d
DictGet(d, k, default) == IF k \in DOMAIN d THEN d[k] ELSE default
DictSet(d, k, v) == [x \in (DOMAIN d) \cup {k} |-> IF x = k THEN v ELSE d[x]]
DictDel(d, k)   == [x \in (DOMAIN d) \ {k} |-> d[x]]

-----------------------------------------------------------------------------
(* commands.py: Command.sort_key and list.sort (stable).                   *)

sort_key(c) == <<c.player_id, c.command_type, c.tick>>

KeyLess(a, b) ==
    \/ a[1] < b[1]
    \/ a[1] = b[1] /\ a[2] < b[2]
    \/ a[1] = b[1] /\ a[2] = b[2] /\ a[3] < b[3]

\* c goes after the elements whose key is not greater: equal keys keep their order
InsertByKey(sorted, c) ==
    LET k == Cardinality({i \in 1..Len(sorted) : ~KeyLess(sort_key(c), sort_key(sorted[i]))})
    IN  SubSeq(sorted, 1, k) \o <<c>> \o SubSeq(sorted, k + 1, Len(sorted))

RECURSIVE SortByKey(_)
SortByKey(cmds) ==
    IF cmds = <<>> THEN <<>>
    ELSE InsertByKey(SortByKey(SubSeq(cmds, 1, Len(cmds) - 1)), cmds[Len(cmds)])

\* all_cmds = our_cmds + peer_cmds; all_cmds.sort(key=sort_key)
\* the concatenation alone, without the sort: what C3 rules out
MergeUnsorted(our_cmds, peer_cmds) == our_cmds \o peer_cmds

MergeCommands(our_cmds, peer_cmds) == SortByKey(our_cmds \o peer_cmds)

-----------------------------------------------------------------------------
(* GameState, as far as the lockstep loop sees it: the tick counter, the   *)
(* PRNG state and the entities.  The pipeline's effect on the entities is  *)
(* kept as the record of the commands applied, in the order applied.       *)

GameState(seed) == [tick |-> 0, rng_state |-> seed, log |-> <<>>]

RECURSIVE CommandsEffect(_)
CommandsEffect(cmds) ==
    IF cmds = <<>> THEN <<>>
    ELSE LET c == Head(cmds)
         IN  <<c.command_type, c.player_id>> \o PackI32(c.tick).val
             \o PackU16(Len(c.entity_ids)).val
             \o Concat([i \in 1..Len(c.entity_ids) |-> PackI32(c.entity_ids[i]).val])
             \o PackI32(c.target_x).val \o PackI32(c.target_y).val
             \o PackI32(c.target_entity_id).val
             \o CommandsEffect(Tail(cmds))

advance_tick_abs(state, commands) ==
    [state EXCEPT !.tick = state.tick + 1,
                  !.log  = state.log \o CommandsEffect(commands)]

\* the bytes fed to the digest stand for the digest
compute_hash(state) == U32Bytes(state.tick) \o U32Bytes(state.rng_state) \o state.log

-----------------------------------------------------------------------------
(* udp_peer.py: UdpNetworkPeer.  M is the running peer: M.u the            *)
(* UdpNetworkPeer, M.g the Game, M.out the datagrams sent, <<to, data>>,   *)
(* M.exc the exception that ended the call, M.ex and M.hl the histories.   *)

Peers  == {"h", "j"}
Third  == "x"
NoAddr == "none"

UdpNetworkPeer ==
    [sock |-> FALSE, peer_addr |-> NoAddr, connected |-> FALSE, player_id |-> -1,
     seed |-> 0, tick_rate |-> TICK_RATE, received_commands |-> EmptyDict,
     received_hashes |-> EmptyDict, is_host |-> FALSE]

send_raw(M, data) ==
    IF ~M.u.sock \/ M.u.peer_addr = NoAddr THEN M
    ELSE [M EXCEPT !.out = @ \cup {<<M.u.peer_addr, data>>}]

\* for _ in range(SEND_REDUNDANCY): self._send_raw(msg)
RECURSIVE send_times(_, _, _)
send_times(M, data, n) ==
    IF n = 0 THEN M
    ELSE CHOOSE R \in {send_times(M1, data, n - 1) : M1 \in {send_raw(M, data)}} : TRUE

\* msg = encode_message(msg_type, payload), payload being the result of its
\* encoder
frame_message(msg_type, payload) ==
    IF payload.exc # "" THEN payload ELSE encode_message(msg_type, payload.val)

send_message(M, msg, n) ==
    IF msg.exc # "" THEN [M EXCEPT !.exc = msg.exc] ELSE send_times(M, msg.val, n)

send_framed(M, msg_type, payload, n) ==
    CHOOSE R \in {send_message(M, msg, n) : msg \in {frame_message(msg_type, payload)}} : TRUE

\* _handle_connect that answers the first CONNECT only
handle_connect_once(M, addr) ==
    IF ~M.u.is_host \/ M.u.connected THEN M
    ELSE send_framed([M EXCEPT !.u.peer_addr = addr, !.u.connected = TRUE],
                     CONNECT_ACK, encode_connect_ack(M.u.seed, M.u.tick_rate, 1),
                     SEND_REDUNDANCY)

handle_connect(M, addr) ==
    IF ~M.u.is_host THEN M
    ELSE send_framed([M EXCEPT !.u.peer_addr = addr, !.u.connected = TRUE],
                     CONNECT_ACK, encode_connect_ack(M.u.seed, M.u.tick_rate, 1),
                     SEND_REDUNDANCY)

handle_connect_ack(M, payload) ==
    IF M.u.is_host THEN M
    ELSE LET d == decode_connect_ack(payload)
         IN  IF d.exc # "" THEN [M EXCEPT !.exc = d.exc]
             ELSE [M EXCEPT !.u.seed = d.seed, !.u.tick_rate = d.tick_rate,
                            !.u.player_id = d.player_id, !.u.connected = TRUE]

handle_commands(M, payload) ==
    LET d == decode_commands(payload)
    IN  IF d.exc # "" THEN [M EXCEPT !.exc = d.exc]
        ELSE IF ~DictHas(M.u.received_commands, d.tick)
            THEN [M EXCEPT !.u.received_commands = DictSet(@, d.tick, d.commands)]
        ELSE M

handle_hash_check(M, payload) ==
    LET d == decode_hash_check(payload)
    IN  IF d.exc # "" THEN [M EXCEPT !.exc = d.exc]
        ELSE [M EXCEPT !.u.received_hashes = DictSet(@, d.tick, d.state_hash)]

handle_packet(M, data, addr) ==
    LET m == decode_message(data)
    IN  IF m.exc \in {"ValueError", "KeyError"} THEN M
        ELSE IF m.msg_type = CONNECT     THEN handle_connect(M, addr)
        ELSE IF m.msg_type = CONNECT_ACK THEN handle_connect_ack(M, m.payload)
        ELSE IF m.msg_type = COMMANDS    THEN handle_commands(M, m.payload)
        ELSE IF m.msg_type = HASH_CHECK  THEN handle_hash_check(M, m.payload)
        ELSE IF m.msg_type = DISCONNECT  THEN [M EXCEPT !.u.connected = FALSE]
        ELSE M

udp_host(M, seed) ==
    [M EXCEPT !.u.sock = TRUE, !.u.is_host = TRUE, !.u.player_id = 0, !.u.seed = seed]

udp_connect(M, host) ==
    LET M1 == IF ~M.u.sock THEN [M EXCEPT !.u.sock = TRUE, !.u.is_host = FALSE] ELSE M
    IN  send_framed([M1 EXCEPT !.u.peer_addr = host], CONNECT, Ok(<<>>), 1)

\* a peer that publishes nothing for a tick without commands: what C4
\* rules out
send_commands_nonempty(M, tick, commands) ==
    IF ~M.u.connected \/ commands = <<>> THEN M
    ELSE send_framed(M, COMMANDS, encode_commands(commands, tick), SEND_REDUNDANCY)

send_commands(M, tick, commands) ==
    IF ~M.u.connected THEN M
    ELSE send_framed(M, COMMANDS, encode_commands(commands, tick), SEND_REDUNDANCY)

send_hash(M, tick, state_hash) ==
    IF ~M.u.connected THEN M
    ELSE send_framed(M, HASH_CHECK, encode_hash_check(tick, state_hash), SEND_REDUNDANCY)

udp_disconnect(M) ==
    LET M1 == IF M.u.sock /\ M.u.connected
                  THEN send_framed(M, DISCONNECT, Ok(<<>>), SEND_REDUNDANCY)
              ELSE M
    IN  [M1 EXCEPT !.u.connected = FALSE, !.u.sock = FALSE]


-----------------------------------------------------------------------------
(* game.py: Game.                                                          *)

Game(player_id, seed) ==
    [phase |-> "CONNECTING", player_id |-> player_id, state |-> GameState(seed),
     pending_commands |-> EmptyDict, commands_sent_for_tick |-> {},
     peer_commands |-> EmptyDict, waiting_for_peer |-> FALSE,
     desync_detected |-> FALSE, desync_tick |-> -1]

\* the peer's process has not constructed its Game yet
NoGame == [Game(-1, 0) EXCEPT !.phase = "NONE"]

\* for cmd in new_commands: self._pending_commands.setdefault(cmd.tick, []).append(cmd)
RECURSIVE add_pending(_, _)
add_pending(pending, cmds) ==
    IF cmds = <<>> THEN pending
    ELSE LET c == Head(cmds)
         IN  add_pending(DictSet(pending, c.tick,
                                 Append(DictGet(pending, c.tick, <<>>), c)),
                         Tail(cmds))

\* for tick in range(tick, end): if tick not in self._commands_sent_for_tick: ...
\* one turn of the loop, after send_commands has returned M1
mark_pending_sent(M1, tick) ==
    IF M1.exc # "" THEN M1 ELSE [M1 EXCEPT !.g.commands_sent_for_tick = @ \cup {tick}]

RECURSIVE send_pending_from(_, _, _)
send_pending_from(M, tick, end) ==
    IF tick >= end \/ M.exc # "" THEN M
    ELSE IF tick \in M.g.commands_sent_for_tick THEN send_pending_from(M, tick + 1, end)
    ELSE CHOOSE R \in
            { send_pending_from(M1, tick + 1, end) :
                M1 \in { mark_pending_sent(
                             send_commands(M, tick, DictGet(M.g.pending_commands, tick, <<>>)),
                             tick) } } : TRUE

send_pending_commands_further(M) ==
    send_pending_from(M, M.g.state.tick, M.g.state.tick + INPUT_DELAY_TICKS + 1)

send_pending_commands(M) ==
    send_pending_from(M, M.g.state.tick, M.g.state.tick + INPUT_DELAY_TICKS)

\* _check_hash from receive_hash on
compare_hash_late(M, tick, our_hash) ==
    IF M.exc # "" THEN M
    ELSE IF DictHas(M.u.received_hashes, tick) /\ M.u.received_hashes[tick] # our_hash
        THEN [M EXCEPT !.u.received_hashes = DictDel(@, tick),
                       !.g.desync_detected = TRUE, !.g.desync_tick = tick + 1]
    ELSE [M EXCEPT !.u.received_hashes = DictDel(@, tick)]

compare_hash(M, tick, our_hash) ==
    IF M.exc # "" THEN M
    ELSE IF DictHas(M.u.received_hashes, tick) /\ M.u.received_hashes[tick] # our_hash
        THEN [M EXCEPT !.u.received_hashes = DictDel(@, tick),
                       !.g.desync_detected = TRUE, !.g.desync_tick = tick]
    ELSE [M EXCEPT !.u.received_hashes = DictDel(@, tick)]

check_hash_at(M, tick, our_hash) ==
    CHOOSE R \in
        { compare_hash(M1, tick, our_hash) :
            M1 \in {send_hash([M EXCEPT !.hl = DictSet(@, tick, our_hash)], tick, our_hash)} } :
        TRUE

check_hash(M) ==
    CHOOSE R \in {check_hash_at(M, M.g.state.tick, h) : h \in {compute_hash(M.g.state)}} : TRUE

\* if self._state.tick % HASH_CHECK_INTERVAL == 0: self._check_hash()
desync_detection(M) ==
    IF M.g.state.tick % HASH_CHECK_INTERVAL = 0 THEN check_hash(M) ELSE M

\* advance_tick(self._state, all_cmds) and the clean-up of the sent tracking
run_tick(M, tick, our_cmds, all_cmds) ==
    [M EXCEPT !.g.state = advance_tick_abs(@, all_cmds),
              !.g.commands_sent_for_tick = @ \ {tick},
              !.ex = Append(@, [tick |-> tick, cmds |-> all_cmds, own |-> our_cmds]),
              !.ret = TRUE]

\* the tail of _try_advance_tick, once the peer's commands are in hand
advance_with(M, tick, our_cmds, peer_cmds) ==
    CHOOSE R \in
        { desync_detection(M1) :
            M1 \in {run_tick(M, tick, our_cmds, MergeCommands(our_cmds, peer_cmds))} } : TRUE

\* a coordinator that does not wait for the peer: what C2 rules out
try_advance_tick_eager(M) ==
    advance_with([M EXCEPT !.g.pending_commands = DictDel(@, M.g.state.tick),
                           !.u.received_commands = DictDel(@, M.g.state.tick)],
                 M.g.state.tick,
                 DictGet(M.g.pending_commands, M.g.state.tick, <<>>),
                 DictGet(M.u.received_commands, M.g.state.tick, <<>>))

mark_sent(M, tick) ==
    IF M.exc # "" THEN M ELSE [M EXCEPT !.g.commands_sent_for_tick = @ \cup {tick}]

\* if tick not in self._commands_sent_for_tick: send_commands, add
ensure_sent(M, tick, our_cmds) ==
    IF tick \in M.g.commands_sent_for_tick THEN M
    ELSE CHOOSE R \in {mark_sent(M1, tick) : M1 \in {send_commands(M, tick, our_cmds)}} : TRUE

\* _try_advance_tick from "Get peer's commands for this tick" on
take_peer_commands_forgetting(M, tick, our_cmds) ==
    IF M.exc # "" THEN M
    ELSE IF DictHas(M.g.peer_commands, tick)
        THEN advance_with([M EXCEPT !.g.peer_commands = DictDel(@, tick)],
                          tick, our_cmds, M.g.peer_commands[tick])
    ELSE IF ~DictHas(M.u.received_commands, tick)
        THEN [M EXCEPT !.ret = FALSE]
    ELSE advance_with([M EXCEPT !.u.received_commands = DictDel(@, tick)],
                      tick, our_cmds, M.u.received_commands[tick])

take_peer_commands(M, tick, our_cmds) ==
    IF M.exc # "" THEN M
    ELSE IF DictHas(M.g.peer_commands, tick)
        THEN advance_with([M EXCEPT !.g.peer_commands = DictDel(@, tick)],
                          tick, our_cmds, M.g.peer_commands[tick])
    ELSE IF ~DictHas(M.u.received_commands, tick)
        \* receive_commands returned None: put our commands back and wait
        THEN [M EXCEPT !.g.pending_commands =
                           IF our_cmds # <<>> THEN DictSet(@, tick, our_cmds) ELSE @,
                       !.ret = FALSE]
    ELSE advance_with([M EXCEPT !.u.received_commands = DictDel(@, tick)],
                      tick, our_cmds, M.u.received_commands[tick])

try_advance_tick_at(M, tick, our_cmds) ==
    CHOOSE R \in
        { take_peer_commands(M1, tick, our_cmds) :
            M1 \in {ensure_sent([M EXCEPT !.g.pending_commands = DictDel(@, tick)],
                                tick, our_cmds)} } : TRUE

try_advance_tick(M) ==
    CHOOSE R \in
        { try_advance_tick_at(M, M.g.state.tick, our_cmds) :
            our_cmds \in {DictGet(M.g.pending_commands, M.g.state.tick, <<>>)} } : TRUE


-----------------------------------------------------------------------------
(* Bounds of the model.                                                    *)

MaxTick          == 3   \* ticks each peer runs under Spec
MaxTicksPerFrame == 2   \* ticks_to_run of one frame
MaxIssue         == 1   \* commands the input layer of one peer produces
MaxTickLive      == 2   \* ticks each peer runs under SpecLive
MaxTickHash      == 10  \* ticks each peer runs under SpecHash
MaxTickAdv       == 1   \* ticks each peer runs under SpecAdv
MaxTickTimeout   == 1   \* ticks each peer runs under SpecTimeout
MaxRate          == 12  \* the largest rate per second distributed under SpecRate
MaxStartTick     == 11  \* the latest start tick of a distribution under SpecRate
MaxTickStop      == 10  \* ticks the scene runs under SpecStop
MaxTickSupersede == 40  \* ticks the scene runs under SpecSupersede
MaxMoveTick      == 3   \* the latest tick of the MOVE under SpecSupersede
MaxTickIdent     == 25  \* ticks the scene runs under SpecIdent
MaxCmdTick       == 2   \* the latest tick that carries a command under SpecIdent
MaxVisEntities   == 2   \* the longest entity list given to VisibilityMap.update under SpecVis
MaxSight         == 1   \* the largest sight of an entity under SpecVis
MaxTickWin       == 10  \* ticks the scene runs under SpecWin
MaxFoundTick     == 3   \* the latest tick of the FOUND_HIVE under SpecWin
MaxTickMove      == 60  \* ticks the scene runs under SpecMove
MaxTickHarvest   == 70  \* ticks the scene runs under SpecHarvest
MaxTickFound     == 5   \* ticks the scene runs under SpecFound
MaxQueued        == 3   \* the most commands added to one CommandQueue under SpecQueue
MaxMapWidth      == 26  \* the widest map generated under SpecMap
MaxMapHeight     == 14  \* the highest map generated under SpecMap
MaxRocks         == 3   \* the most rock tiles of a grid under SpecPath
MaxTickDesync    == 12  \* ticks each peer runs under SpecDesync
MaxTickRes       == 50  \* ticks run under SpecRes
MaxResCmdTick    == 3   \* the last tick with an order under SpecRes
MaxTickShake     == 1   \* ticks each peer runs under SpecShake
MaxLost          == 1   \* datagrams of one kind the channel loses under SpecShake
MaxTickDecay     == 160
MaxDecayCmdTick  == 6
MaxTickHealth    == 30
MaxHealthCmdTick == 2
MaxTickSnap      == 20
MaxSnapCmdTick   == 2
MaxTickSpawn     == 45
MaxSpawnCmdTick  == 2
MaxTickRock      == 14
MaxRockCmdTick   == 1
MaxPubIssue      == 2
MaxInjected      == 1   \* datagrams the third party sends
MaxLen           == 2   \* commands in one list of the codec round trip

Seeds       == {258}    \* int(time.time() * 1000) & 0xFFFFFFFF, one sample
ForgedSeeds == {9}      \* the seed of a CONNECT_ACK the host did not send

Min(a, b) == IF a <= b THEN a ELSE b

-----------------------------------------------------------------------------
(* The running peer and what a step leaves behind.                         *)

Running(p) == [u |-> udp[p], g |-> game[p], out |-> {}, exc |-> "", ret |-> TRUE,
               ex |-> executed[p], hl |-> hash_log[p]]

\* a datagram sent to the third party's address leaves the model, and so
\* does one sent to a peer that has no socket open
Sent(p, M) ==
    [a \in Peers |->
        IF udp[a].sock THEN net[a] \cup {<<o[2], p>> : o \in {x \in M.out : x[1] = a}}
        ELSE net[a]]

\* what a call of peer p leaves behind, the network apart
Commit(p, M, next_pc, where) ==
    /\ udp'       = [udp EXCEPT ![p] = M.u]
    /\ game'      = [game EXCEPT ![p] = M.g]
    /\ executed'  = [executed EXCEPT ![p] = M.ex]
    /\ hash_log'  = [hash_log EXCEPT ![p] = M.hl]
    /\ accepted'  = [accepted EXCEPT ![p] =
                        @ \cup ((DOMAIN M.u.received_commands)
                                \ (DOMAIN udp[p].received_commands))]
    /\ hash_seen' = [hash_seen EXCEPT ![p] = @ \cup (DOMAIN M.u.received_hashes)]
    /\ pc'        = [pc EXCEPT ![p] = IF M.exc # "" THEN "crashed" ELSE next_pc]
    /\ crash'     = [crash EXCEPT ![p] = IF M.exc # "" THEN where ELSE @]

Finish(p, M, next_pc, where) ==
    /\ Commit(p, M, next_pc, where)
    /\ net' = Sent(p, M)

-----------------------------------------------------------------------------
(* main.py                                                                 *)

\* _run_host: peer.host(port); Game(screen, peer, peer.player_id, peer.seed)
Host(p) ==
    /\ p = "h" /\ pc[p] = "new"
    /\ \E seed \in Seeds :
          LET M == udp_host(Running(p), seed)
          IN  Finish(p, [M EXCEPT !.g = Game(M.u.player_id, M.u.seed)], "idle", "host")
    /\ UNCHANGED <<ticks_left, recv_age, issued, injected, codecVars, simVars>>

\* _run_join: peer.connect(host, port), then the wait loop
Connect(p) ==
    /\ p = "j" /\ pc[p] = "new"
    /\ \E M \in {udp_connect(Running(p), "h")} : Finish(p, M, "waiting", "connect")
    /\ UNCHANGED <<ticks_left, recv_age, issued, injected, codecVars, simVars>>

\* the wait loop's retry: peer.connect(host, port) again
RetryConnect(p) ==
    /\ pc[p] = "waiting" /\ ~udp[p].connected
    /\ \E M \in {udp_connect(Running(p), "h")} : Finish(p, M, "waiting", "connect")
    /\ UNCHANGED <<ticks_left, recv_age, issued, injected, codecVars, simVars>>

\* the wait loop's deadline: sys.exit(1)
GiveUp(p) ==
    /\ pc[p] = "waiting" /\ ~udp[p].connected
    /\ pc' = [pc EXCEPT ![p] = "done"]
    /\ UNCHANGED <<udp, game, ticks_left, recv_age, net, executed, accepted, hash_log,
                   hash_seen, crash, issued, injected, codecVars, simVars>>

\* the wait loop ends: Game(screen, peer, peer.player_id, peer.seed)
StartGame(p) ==
    /\ pc[p] = "waiting" /\ udp[p].connected
    /\ Finish(p, [Running(p) EXCEPT !.g = Game(udp[p].player_id, udp[p].seed)],
              "idle", "start")
    /\ UNCHANGED <<ticks_left, recv_age, issued, injected, codecVars, simVars>>

-----------------------------------------------------------------------------
(* The network and UdpNetworkPeer.poll.  A datagram in flight stands for   *)
(* all its copies, the network's duplicates included: Deliver hands one    *)
(* copy to the peer and the datagram stays in flight.  Datagrams are       *)
(* delivered in any order; a datagram that is never delivered is lost.     *)

Deliver(p, d) ==
    /\ pc[p] \in {"waiting", "idle"} /\ udp[p].sock
    /\ d \in net[p]
    /\ \E M \in {handle_packet(Running(p), d[1], d[2])} : Finish(p, M, pc[p], "poll")
    /\ recv_age' = [recv_age EXCEPT ![p] = "fresh"]
    /\ UNCHANGED <<ticks_left, issued, injected, codecVars, simVars>>

\* a network that hands every datagram over at most once: the copy is
\* taken out of flight
Receive(p, d) ==
    /\ pc[p] \in {"waiting", "idle"} /\ udp[p].sock
    /\ d \in net[p]
    /\ \E M \in {handle_packet(Running(p), d[1], d[2])} :
          /\ Commit(p, M, pc[p], "poll")
          /\ net' = [Sent(p, M) EXCEPT ![p] = @ \ {d}]
    /\ recv_age' = [recv_age EXCEPT ![p] = "fresh"]
    /\ UNCHANGED <<ticks_left, issued, injected, codecVars, simVars>>

\* time goes by without a datagram
TimePasses(p) ==
    /\ pc[p] = "idle" /\ recv_age[p] \in {"fresh", "warn"}
    /\ recv_age' = [recv_age EXCEPT ![p] = IF @ = "fresh" THEN "warn" ELSE "dead"]
    /\ UNCHANGED <<pc, udp, game, ticks_left, net, executed, accepted, hash_log,
                   hash_seen, crash, issued, injected, codecVars, simVars>>

-----------------------------------------------------------------------------
(* game.py: Game.run, one frame in three steps: the frame up to the for    *)
(* loop of _update_playing, each _try_advance_tick call, the frame's end.  *)
(* Nothing else of the peer runs between them.                             *)

\* what InputHandler.process_events can return in one frame
InputCommands(g) ==
    LET t == g.state.tick + INPUT_DELAY_TICKS
        e == IF g.player_id = 0 THEN 1 ELSE 7
    IN  { <<>>,
          <<Command(MOVE, g.player_id, t, <<e>>, 1500, -200, 0)>>,
          <<Command(STOP, g.player_id, t, <<e>>, 0, 0, 0)>> }

\* the frame when at least min_ticks ticks of time have accumulated
FrameFrom(p, cap, max_issue, min_ticks) ==
    /\ pc[p] = "idle"
    /\ \/ game[p].phase = "PLAYING"
       \/ game[p].phase = "CONNECTING" /\ udp[p].connected
    /\ game[p].state.tick < cap
    /\ \E new_commands \in InputCommands(game[p]),
          n \in min_ticks..Min(MaxTicksPerFrame, cap - game[p].state.tick) :
          /\ issued[p] + Len(new_commands) <= max_issue
          \* a command that would run past the model's last tick is left out
          /\ new_commands # <<>> => game[p].state.tick + INPUT_DELAY_TICKS < cap
          /\ issued' = [issued EXCEPT ![p] = @ + Len(new_commands)]
          /\ ticks_left' = [ticks_left EXCEPT ![p] = n]
          /\ \E M \in { send_pending_commands(
                            [Running(p) EXCEPT
                                !.g.phase = "PLAYING",
                                !.g.pending_commands = add_pending(@, new_commands)]) } :
                Finish(p, M, "loop", "send")
    /\ UNCHANGED <<recv_age, injected, codecVars, simVars>>

FrameBegin(p, cap, max_issue) == FrameFrom(p, cap, max_issue, 0)

TryAdvanceTick(p) ==
    /\ pc[p] = "loop" /\ ticks_left[p] > 0
    /\ \E M \in {try_advance_tick(Running(p))} :
          \* if not self._try_advance_tick(): break
          /\ Finish(p, M, IF M.ret THEN "loop" ELSE "blocked", "send")
          /\ ticks_left' = [ticks_left EXCEPT ![p] = IF M.ret THEN @ - 1 ELSE 0]
    /\ UNCHANGED <<recv_age, issued, injected, codecVars, simVars>>

\* FrameEnd without the check of the time since the last datagram
FrameEnd_no_timeout(p) ==
    /\ pc[p] \in {"loop", "blocked"} /\ ticks_left[p] = 0
    /\ pc' = [pc EXCEPT ![p] = "idle"]
    /\ UNCHANGED <<udp, game, ticks_left, recv_age, net, executed, accepted, hash_log,
                   hash_seen, crash, issued, injected, codecVars, simVars>>

\* elapsed > NET_TIMEOUT_DISCONNECT_MS; elapsed > NET_TIMEOUT_WARNING_MS
FrameEnd(p) ==
    /\ pc[p] \in {"loop", "blocked"} /\ ticks_left[p] = 0
    /\ pc' = [pc EXCEPT ![p] = "idle"]
    /\ game' = [game EXCEPT ![p] =
                   IF recv_age[p] = "dead" THEN [@ EXCEPT !.phase = "DISCONNECTED"]
                   ELSE [@ EXCEPT !.waiting_for_peer = (recv_age[p] = "warn")]]
    /\ UNCHANGED <<udp, ticks_left, recv_age, net, executed, accepted, hash_log,
                   hash_seen, crash, issued, injected, codecVars, simVars>>

\* pygame.QUIT or ESC: the loop ends and run() calls self._peer.disconnect()
Quit(p) ==
    /\ pc[p] = "idle"
    /\ \E M \in {udp_disconnect(Running(p))} : Finish(p, M, "done", "quit")
    /\ UNCHANGED <<ticks_left, recv_age, issued, injected, codecVars, simVars>>

-----------------------------------------------------------------------------
(* Initial states.                                                         *)

InitNet ==
    /\ pc         = [p \in Peers |-> "new"]
    /\ udp        = [p \in Peers |-> UdpNetworkPeer]
    /\ game       = [p \in Peers |-> NoGame]
    /\ ticks_left = [p \in Peers |-> 0]
    /\ recv_age   = [p \in Peers |-> "never"]
    /\ net        = [p \in Peers |-> {}]
    /\ executed   = [p \in Peers |-> <<>>]
    /\ accepted   = [p \in Peers |-> {}]
    /\ hash_log   = [p \in Peers |-> EmptyDict]
    /\ hash_seen  = [p \in Peers |-> {}]
    /\ crash      = [p \in Peers |-> ""]
    /\ issued     = [p \in Peers |-> 0]
    /\ injected   = 0

\* no simulation is set up
InitSimIdle ==
    /\ sim = <<>>
    /\ sim_hist = <<>>
    /\ calc = <<>>

InitCodecIdle ==
    /\ c_pc = "off" /\ c_in = <<>> /\ c_enc = <<>> /\ c_dec = <<>>

-----------------------------------------------------------------------------
(* Spec: host and joiner over a network that loses, duplicates and         *)
(* reorders datagrams.                                                     *)

Init == InitNet /\ InitCodecIdle /\ InitSimIdle

Next ==
    \E p \in Peers :
        \/ Host(p)
        \/ Connect(p)
        \/ RetryConnect(p)
        \/ StartGame(p)
        \/ \E d \in net[p] : Deliver(p, d)
        \/ FrameBegin(p, MaxTick, MaxIssue)
        \/ TryAdvanceTick(p)
        \/ FrameEnd(p)

Spec == Init /\ [][Next]_vars

-----------------------------------------------------------------------------
(* Claims checked under Spec.                                              *)

\* the step is a _try_advance_tick call of peer p
IsTryAdvance(p) ==
    pc[p] = "loop" /\ ticks_left[p] > 0 /\ ticks_left'[p] # ticks_left[p]

HasPeerCommands(p) ==
    \/ DictHas(game[p].peer_commands, game[p].state.tick)
    \/ DictHas(udp[p].received_commands, game[p].state.tick)

\* C2, first half: a _try_advance_tick call that lacks the peer's commands
\* for the current tick returns False (the loop is left) with the
\* simulation state, the tick and the pending commands as they were; a call
\* that has them runs exactly the current tick.
C2_Step ==
    \A p \in Peers :
        IsTryAdvance(p) =>
            IF HasPeerCommands(p)
            THEN /\ game'[p].state.tick = game[p].state.tick + 1
                 /\ Len(executed'[p]) = Len(executed[p]) + 1
                 /\ executed'[p][Len(executed'[p])].tick = game[p].state.tick
            ELSE /\ pc'[p] = "blocked"
                 /\ game'[p].state = game[p].state
                 /\ game'[p].pending_commands = game[p].pending_commands
                 /\ executed'[p] = executed[p]

\* C2, second half: the ticks a peer has executed are 0, 1, 2, ... in this
\* order, each once, up to its tick counter, and each of them was executed
\* after a COMMANDS frame for it had been taken into the receive buffer.
C2_Order ==
    \A p \in Peers :
        /\ Len(executed[p]) = game[p].state.tick
        /\ \A i \in 1..Len(executed[p]) :
               /\ executed[p][i].tick = i - 1
               /\ executed[p][i].tick \in accepted[p]

\* C2: advance_tick runs for tick t only once the peer's commands for t are
\* there, a blocked call changes nothing, and ticks run in order, each once.
C2_Lockstep == [][C2_Step]_vars /\ []C2_Order

\* a peer that has run a tick is blocked on a later one for which it holds
\* commands of its own
C2_Witness ==
    \E p \in Peers :
        /\ pc[p] = "blocked" /\ game[p].state.tick >= 1
        /\ DictHas(game[p].pending_commands, game[p].state.tick)

\* C3: for every tick both peers have executed, the command list handed to
\* advance_tick is the same sequence on both.
C3_SameCommands ==
    \A i \in 1..Min(Len(executed["h"]), Len(executed["j"])) :
        executed["h"][i].cmds = executed["j"][i].cmds

\* both peers have executed a tick for which each had a command of its own
C3_Witness ==
    \E i \in 1..Min(Len(executed["h"]), Len(executed["j"])) :
        /\ executed["h"][i].own # <<>> /\ executed["j"][i].own # <<>>
        /\ executed["h"][i].own # executed["j"][i].own
        /\ Len(executed["j"][i].cmds) = 2

\* C10: no entry for a tick the peer has already executed is in its receive
\* buffer.
C10_NoStaleEntry ==
    \A p \in Peers :
        \A t \in DOMAIN udp[p].received_commands : t >= game[p].state.tick

-----------------------------------------------------------------------------
(* SpecCodec: the COMMANDS payload codec on its own.  The inputs are the   *)
(* command lists of at most MaxLen commands over commands the input layer  *)
(* builds, and the tick of the frame.                                      *)

\* handler.py builds these: a move, a harvest-move (target_entity_id=-1),
\* an attack on an entity, a stop, a spawn without a target
CodecCommands ==
    { Command(MOVE, 0, 2, <<1, 2>>, 1500, -200, 0),
      Command(HARVEST, 1, 3, <<7>>, 40, 50, -1),
      Command(HARVEST, 0, 2, <<1>>, 40, 50, 12),
      Command(ATTACK, 1, 70000, <<7, 8>>, 0, 0, 3),
      Command(STOP, 0, 2, <<>>, 0, 0, 0) }

CodecTicks == {0, 2, 70000}

RECURSIVE CommandLists(_)
CommandLists(n) ==
    IF n = 0 THEN {<<>>}
    ELSE LET shorter == CommandLists(n - 1)
         IN  shorter \cup {Append(l, c) : l \in shorter, c \in CodecCommands}

InitCodec ==
    /\ InitNet
    /\ InitSimIdle
    /\ c_pc = "in"
    /\ c_in \in {[tick |-> t, commands |-> l] : t \in CodecTicks, l \in CommandLists(MaxLen)}
    /\ c_enc = <<>> /\ c_dec = <<>>

Encode ==
    /\ c_pc = "in"
    /\ c_enc' = encode_commands(c_in.commands, c_in.tick)
    /\ c_pc' = "encoded"
    /\ UNCHANGED <<c_in, c_dec, netVars, simVars>>

Decode ==
    /\ c_pc = "encoded" /\ c_enc.exc = ""
    /\ c_dec' = decode_commands(c_enc.val)
    /\ c_pc' = "decoded"
    /\ UNCHANGED <<c_in, c_enc, netVars, simVars>>

NextCodec == Encode \/ Decode

SpecCodec == InitCodec /\ [][NextCodec]_vars

\* C7: encode_commands succeeds on every list of commands the input layer
\* can build, and decode_commands gives back the tick and the list.
C7_RoundTrip ==
    /\ c_pc = "encoded" => c_enc.exc = ""
    /\ c_pc = "decoded" => /\ c_dec.exc = ""
                           /\ c_dec.tick = c_in.tick
                           /\ c_dec.commands = c_in.commands

\* C7 without the no-target value: the round trip of lists whose commands
\* all carry a target_entity_id >= 0.
C7_RoundTripNonNegative ==
    (\A i \in 1..Len(c_in.commands) : c_in.commands[i].target_entity_id >= 0)
        => C7_RoundTrip

C7_WitnessDecoded ==
    /\ c_pc = "decoded" /\ Len(c_in.commands) = MaxLen
    /\ c_dec.commands = c_in.commands

-----------------------------------------------------------------------------
(* SpecAdv: Spec without player input, plus a third party that sends up to *)
(* MaxInjected datagrams of its own to the peers' sockets.                 *)

Zeros(n) == [i \in 1..n |-> 0]

\* datagrams decode_message refuses
BadFrames ==
    { <<COMMANDS>>,                       \* shorter than the frame header
      <<9, 0, 0>>,                        \* unknown message kind
      <<COMMANDS, 0, 5, 0>> }             \* payload shorter than payload_len

\* well-framed datagrams whose payload is truncated or names an unknown
\* command kind
BadPayloads ==
    { <<COMMANDS, 0, 2, 0, 0>>,
      <<CONNECT_ACK, 0, 1, 0>>,
      <<HASH_CHECK, 0, 2, 0, 0>>,
      <<COMMANDS, 0, 26>> \o <<0, 0, 0, 0, 0, 1>> \o <<99, 0, 0, 0, 0, 0, 0, 0>>
          \o Zeros(CMD_TARGET_size) }

ThirdPartyDatagrams == BadFrames \cup BadPayloads \cup {encode_message(CONNECT, <<>>).val}

Inject(p, data) ==
    /\ injected < MaxInjected
    /\ udp[p].sock
    /\ <<data, Third>> \notin net[p]
    /\ net' = [net EXCEPT ![p] = @ \cup {<<data, Third>>}]
    /\ injected' = injected + 1
    /\ UNCHANGED <<pc, udp, game, ticks_left, recv_age, executed, accepted, hash_log,
                   hash_seen, crash, issued, codecVars, simVars>>

NextAdv ==
    \E p \in Peers :
        \/ Host(p)
        \/ Connect(p)
        \/ RetryConnect(p)
        \/ StartGame(p)
        \/ \E d \in net[p] : Deliver(p, d)
        \/ \E data \in ThirdPartyDatagrams : Inject(p, data)
        \/ FrameBegin(p, MaxTickAdv, 0)
        \/ TryAdvanceTick(p)
        \/ FrameEnd(p)

SpecAdv == Init /\ [][NextAdv]_vars

\* C6: a poll never ends in an exception, whatever datagram it reads.
C6_PollNeverRaises == \A p \in Peers : crash[p] # "poll"

\* C6 for the datagrams decode_message refuses: a peer that never gets a
\* badly framed payload is never crashed by poll, and keeps no trace of the
\* frames decode_message refused.
C6_BadFramesDropped ==
    (\A p \in Peers : \A d \in net[p] : d[1] \notin BadPayloads) => C6_PollNeverRaises

\* C9: once the host is connected, no step changes the peer address it has
\* recorded.
C9_Step == udp["h"].connected => udp'["h"].peer_addr = udp["h"].peer_addr

C9_PeerAddrFixed == [][C9_Step]_vars

-----------------------------------------------------------------------------
(* SpecConn: the handshake and the end of a session.  Spec without player  *)
(* input, plus the joiner's deadline and either player quitting.           *)

NextConn ==
    \E p \in Peers :
        \/ Host(p)
        \/ Connect(p)
        \/ RetryConnect(p)
        \/ GiveUp(p)
        \/ StartGame(p)
        \/ \E d \in net[p] : Deliver(p, d)
        \/ FrameBegin(p, MaxTickAdv, 0)
        \/ TryAdvanceTick(p)
        \/ FrameEnd(p)
        \/ Quit(p)

SpecConn == Init /\ [][NextConn]_vars

\* C8 as stated: a connected joiner means a connected host, the host's seed
\* at the joiner, and player ids 1 and 0.
C8_AgreementAsStated ==
    udp["j"].connected =>
        /\ udp["h"].connected
        /\ udp["j"].seed = udp["h"].seed
        /\ udp["j"].player_id = 1
        /\ udp["h"].player_id = 0

\* C8 amended: a connected joiner has the host's seed and player id 1, the
\* host is player 0, and the host is connected unless it has called
\* disconnect().
C8_Agreement ==
    udp["j"].connected =>
        /\ udp["h"].connected \/ pc["h"] = "done"
        /\ udp["j"].seed = udp["h"].seed
        /\ udp["j"].player_id = 1
        /\ udp["h"].player_id = 0

\* the joiner got its CONNECT_ACK after a retry and runs the game while the
\* host has quit
C8_Witness ==
    /\ udp["j"].connected /\ game["j"].phase = "PLAYING"
    /\ pc["h"] = "done" /\ ~udp["h"].connected

-----------------------------------------------------------------------------
(* SpecHash: the two peers run to the first hash check without player      *)
(* input.  The network hands every datagram over at most once, and a third *)
(* party may send the joiner a CONNECT_ACK of its own, which                *)
(* _handle_connect_ack takes like the host's.                              *)

ForgedAcks ==
    {encode_message(CONNECT_ACK, encode_connect_ack(seed, TICK_RATE, 1).val).val :
        seed \in ForgedSeeds}

NextHash ==
    \E p \in Peers :
        \/ Host(p)
        \/ Connect(p)
        \/ RetryConnect(p)
        \/ StartGame(p)
        \/ \E d \in net[p] : Receive(p, d)
        \/ \E data \in ForgedAcks : p = "j" /\ Inject(p, data)
        \/ FrameBegin(p, MaxTickHash, 0)
        \/ TryAdvanceTick(p)
        \/ FrameEnd(p)

SpecHash == Init /\ [][NextHash]_vars

\* both peers have run _check_hash for tick k with different hashes, and
\* each has taken the other's HASH_CHECK frame for k into its buffer
HashesDifferAndDelivered(k) ==
    /\ \A p \in Peers : DictHas(hash_log[p], k) /\ k \in hash_seen[p]
    /\ hash_log["h"][k] # hash_log["j"][k]

\* C5: when the hashes of a check tick differ and each peer's HASH_CHECK
\* frame has reached the other, one of the peers has recorded the desync.
C5_DesyncDetected ==
    \A k \in {HASH_CHECK_INTERVAL} :
        HashesDifferAndDelivered(k) =>
            \E p \in Peers : game[p].desync_detected /\ game[p].desync_tick = k

\* the order of arrival in which the check works: a peer that holds the
\* other's hash when it runs _check_hash records the desync
C5_DetectedWhenHashCameFirst ==
    \E p \in Peers : game[p].desync_detected /\ game[p].desync_tick = HASH_CHECK_INTERVAL

-----------------------------------------------------------------------------
(* SpecLive: Spec without player input, under the conditions of C4: the    *)
(* processes keep running, frames with time elapsed keep coming, and every *)
(* datagram sent is handed over at some poll.                              *)

NextLive ==
    \E p \in Peers :
        \/ Host(p)
        \/ Connect(p)
        \/ RetryConnect(p)
        \/ StartGame(p)
        \/ \E d \in net[p] : Deliver(p, d)
        \/ FrameBegin(p, MaxTickLive, 0)
        \/ TryAdvanceTick(p)
        \/ FrameEnd(p)

\* a frame whose accumulator holds at least one tick
FrameWithTime(p) == FrameFrom(p, MaxTickLive, 0, 1)

\* the steps of p's process that follow from where it stands
ProcessStep(p) ==
    \/ Host(p)
    \/ Connect(p)
    \/ RetryConnect(p)
    \/ StartGame(p)
    \/ TryAdvanceTick(p)
    \/ FrameEnd(p)

\* a poll that takes in a datagram
Poll(p) == \E d \in net[p] : Deliver(p, d)

\* a datagram changes the peer's state at most once, so polls that change
\* the state, again and again, take in every datagram in flight
Fairness ==
    \A p \in Peers :
        /\ WF_vars(ProcessStep(p))
        /\ SF_vars(FrameWithTime(p))
        /\ SF_vars(Poll(p))

SpecLive == Init /\ [][NextLive]_vars /\ Fairness

-----------------------------------------------------------------------------
(* SpecTimeout: Spec without player input, with time going by between      *)
(* datagrams.  The frame loop of a running process keeps running.          *)

\* a frame in which less than one tick of time has accumulated
\* (ticks_to_run = 0): the pending commands are published, no tick is tried
FrameShort(p) ==
    /\ pc[p] = "idle"
    /\ \/ game[p].phase = "PLAYING"
       \/ game[p].phase = "CONNECTING" /\ udp[p].connected
    /\ ticks_left' = [ticks_left EXCEPT ![p] = 0]
    /\ \E M \in { send_pending_commands([Running(p) EXCEPT !.g.phase = "PLAYING"]) } :
          Finish(p, M, "loop", "send")
    /\ UNCHANGED <<recv_age, issued, injected, codecVars, simVars>>

NextTimeout ==
    \E p \in Peers :
        \/ Host(p)
        \/ Connect(p)
        \/ RetryConnect(p)
        \/ StartGame(p)
        \/ \E d \in net[p] : Deliver(p, d)
        \/ TimePasses(p)
        \/ FrameBegin(p, MaxTickTimeout, 0)
        \/ FrameShort(p)
        \/ TryAdvanceTick(p)
        \/ FrameEnd(p)

\* the steps of a frame of p's game loop once it has begun
FrameStep(p) == TryAdvanceTick(p) \/ FrameEnd(p)

\* a frame of p's game loop can begin: what FrameShort(p) needs to be taken
CanFrame(p) ==
    /\ pc[p] = "idle"
    /\ \/ game[p].phase = "PLAYING"
       \/ game[p].phase = "CONNECTING" /\ udp[p].connected

\* Game.run keeps looping: a frame that has begun goes on to its end, and
\* frames keep beginning (weak fairness of FrameShort(p), written out with
\* its enabling condition CanFrame(p))
FairFrames ==
    \A p \in Peers :
        /\ WF_vars(FrameStep(p))
        /\ []<>(~CanFrame(p)) \/ []<><<FrameShort(p)>>_vars

SpecTimeout == Init /\ [][NextTimeout]_vars /\ FairFrames

PhaseMoves == { <<"NONE", "CONNECTING">>, <<"CONNECTING", "PLAYING">>,
                <<"PLAYING", "DISCONNECTED">> }

\* the phase moves only forward, and a DISCONNECTED game stays so and runs
\* no tick
C11_Step ==
    \A p \in Peers :
        /\ game'[p].phase # game[p].phase => <<game[p].phase, game'[p].phase>> \in PhaseMoves
        /\ game[p].phase = "DISCONNECTED" =>
              /\ game'[p].phase = "DISCONNECTED"
              /\ game'[p].state = game[p].state
              /\ executed'[p] = executed[p]

\* a PLAYING game whose last datagram is older than NET_TIMEOUT_DISCONNECT_MS
\* becomes DISCONNECTED, unless a datagram arrives before the frame's check
C11_Disconnects ==
    \A p \in Peers :
        (game[p].phase = "PLAYING" /\ recv_age[p] = "dead")
            ~> (game[p].phase = "DISCONNECTED" \/ recv_age[p] = "fresh")

\* C11: while PLAYING, more than NET_TIMEOUT_DISCONNECT_MS without a datagram
\* lead to phase DISCONNECTED; the phase only moves CONNECTING -> PLAYING ->
\* DISCONNECTED, and DISCONNECTED is terminal: no tick runs after it.
C11_Timeout == [][C11_Step]_vars /\ C11_Disconnects

\* a peer that has run a tick is DISCONNECTED after the timeout, while
\* datagrams for it are still in flight
C11_Witness ==
    \E p \in Peers :
        /\ game[p].phase = "DISCONNECTED" /\ recv_age[p] = "dead"
        /\ executed[p] # <<>> /\ net[p] # {}

-----------------------------------------------------------------------------
(* combat.py, harvest.py, hive.py: a per-second rate spread over the ticks *)
(* of a second.                                                            *)

\* a rate dealt in whole units per second, none on the ticks in between
damage_this_tick_truncated(dps, tick) == dps \div TICK_RATE

\* combat.py _damage_this_tick
damage_this_tick(dps, tick) ==
    LET t == tick % TICK_RATE
    IN  (dps * (t + 1)) \div TICK_RATE - (dps * t) \div TICK_RATE

\* harvest.py _harvest_this_tick
harvest_this_tick(rate, tick) ==
    LET t == tick % TICK_RATE
    IN  (rate * (t + 1)) \div TICK_RATE - (rate * t) \div TICK_RATE

\* hive.py _income_this_tick
income_this_tick(income_per_sec, tick) ==
    LET t == tick % TICK_RATE
    IN  (income_per_sec * (t + 1)) \div TICK_RATE - (income_per_sec * t) \div TICK_RATE

RateFunctions == {"damage", "harvest", "income"}

rate_this_tick(fn, rate, tick) ==
    CASE fn = "damage"  -> damage_this_tick(rate, tick)
      [] fn = "harvest" -> harvest_this_tick(rate, tick)
      [] fn = "income"  -> income_this_tick(rate, tick)

(* SpecRate: one of the three functions is called for the ticks            *)
(* s .. s + TICK_RATE - 1 of a rate, and the amounts are added up.         *)

InitRate ==
    /\ InitNet /\ InitCodecIdle
    /\ sim = <<>> /\ sim_hist = <<>>
    /\ \E fn \in RateFunctions, rate \in 0..MaxRate, s \in 0..MaxStartTick :
          calc = [fn |-> fn, rate |-> rate, s |-> s, amounts |-> <<>>, sum |-> 0]

\* the amount of the next tick
Distribute ==
    /\ calc # <<>> /\ Len(calc.amounts) < TICK_RATE
    /\ LET a == rate_this_tick(calc.fn, calc.rate, calc.s + Len(calc.amounts))
       IN  calc' = [calc EXCEPT !.amounts = Append(@, a), !.sum = @ + a]
    /\ UNCHANGED <<netVars, codecVars, sim, sim_hist>>

NextRate == Distribute

SpecRate == InitRate /\ [][NextRate]_vars

\* C16: every per-tick amount is >= 0 and equals the amount TICK_RATE ticks
\* later, and the amounts of TICK_RATE consecutive ticks add up to the rate,
\* for the damage, the harvest and the income distribution.
C16_Bresenham ==
    calc # <<>> =>
        /\ \A i \in 1..Len(calc.amounts) :
              /\ calc.amounts[i] >= 0
              /\ calc.amounts[i] =
                    rate_this_tick(calc.fn, calc.rate, calc.s + i - 1 + TICK_RATE)
        /\ Len(calc.amounts) = TICK_RATE => calc.sum = calc.rate

\* a rate that is no multiple of TICK_RATE, from a start tick inside a
\* second, has been dealt out over TICK_RATE ticks
C16_Witness ==
    /\ calc # <<>>
    /\ Len(calc.amounts) = TICK_RATE
    /\ calc.fn = "damage" /\ calc.rate % TICK_RATE # 0 /\ calc.s % TICK_RATE # 0
    /\ \E i \in 1..TICK_RATE : calc.amounts[i] = 0

-----------------------------------------------------------------------------
(* tilemap.py: TileMap.  The tiles are a flat row-major sequence; the      *)
(* tile (x, y) is tiles[y * width + x + 1].                                *)

MILLI_TILES_PER_TILE == 1000
DIRT == 0
ROCK == 1

\* tests/scenario.py open_map: all dirt inside a one-tile border of rock
open_map(width, height) ==
    [width |-> width, height |-> height,
     tiles |-> [i \in 1..(width * height) |->
                  LET x == (i - 1) % width
                      y == (i - 1) \div width
                  IN  IF x = 0 \/ x = width - 1 \/ y = 0 \/ y = height - 1
                      THEN ROCK ELSE DIRT]]

\* TileMap.set_tile
set_tile(tilemap, x, y, tile_type) ==
    IF 0 <= x /\ x < tilemap.width /\ 0 <= y /\ y < tilemap.height
    THEN [tilemap EXCEPT !.tiles[y * tilemap.width + x + 1] = tile_type]
    ELSE tilemap

\* TileMap.get_tile: out of bounds is ROCK
get_tile(tilemap, x, y) ==
    IF 0 <= x /\ x < tilemap.width /\ 0 <= y /\ y < tilemap.height
    THEN tilemap.tiles[y * tilemap.width + x + 1]
    ELSE ROCK

is_walkable(tilemap, x, y) == get_tile(tilemap, x, y) = DIRT

\* the centre of a tile, in milli-tiles
TileCentre(t) == t * MILLI_TILES_PER_TILE + MILLI_TILES_PER_TILE \div 2

\* math.isqrt by bisection: the r in lo..hi with r * r <= n < (r + 1) * (r + 1)
RECURSIVE IsqrtBetween(_, _, _)
IsqrtBetween(n, lo, hi) ==
    IF lo = hi THEN lo
    ELSE LET mid == (lo + hi + 1) \div 2
         IN  IF mid * mid <= n THEN IsqrtBetween(n, mid, hi)
             ELSE IsqrtBetween(n, lo, mid - 1)

isqrt(n) == IsqrtBetween(n, 0, Min(n, 46340))

Abs(a) == IF a < 0 THEN -a ELSE a

-----------------------------------------------------------------------------
(* pathfinding.py: A* on the tile grid.  Tiles are pairs <<x, y>>; the     *)
(* open set holds tuples <<f, y, x, g>> and heappop takes the least one.   *)

CARDINAL_COST == 1000
DIAGONAL_COST == 1414

NEIGHBORS ==
    << <<1, 0, CARDINAL_COST>>, <<-1, 0, CARDINAL_COST>>, <<0, 1, CARDINAL_COST>>,
       <<0, -1, CARDINAL_COST>>, <<1, 1, DIAGONAL_COST>>, <<1, -1, DIAGONAL_COST>>,
       <<-1, 1, DIAGONAL_COST>>, <<-1, -1, DIAGONAL_COST>> >>

\* _heuristic: octile distance
heuristic(x, y, gx, gy) ==
    LET dx == Abs(x - gx)
        dy == Abs(y - gy)
    IN  IF dx > dy THEN dy * DIAGONAL_COST + (dx - dy) * CARDINAL_COST
        ELSE dx * DIAGONAL_COST + (dy - dx) * CARDINAL_COST

\* the order of Python tuples of equal length
RECURSIVE TupleLess(_, _)
TupleLess(a, b) ==
    IF a = <<>> THEN FALSE
    ELSE IF Head(a) # Head(b) THEN Head(a) < Head(b)
    ELSE TupleLess(Tail(a), Tail(b))

\* heapq.heappop: the least tuple of the heap
HeapMin(open_set) == CHOOSE m \in open_set : \A o \in open_set : o = m \/ TupleLess(m, o)

\* the path reconstruction with the start kept at its head
RECURSIVE ReconstructPath_from_start(_, _, _, _)
ReconstructPath_from_start(came_from, start, c, path) ==
    IF c = start THEN <<c>> \o path
    ELSE ReconstructPath_from_start(came_from, start, came_from[c], <<c>> \o path)

\* the path reconstruction: from the goal back to the start, reversed
RECURSIVE ReconstructPath(_, _, _, _)
ReconstructPath(came_from, start, c, path) ==
    IF c = start THEN path
    ELSE ReconstructPath(came_from, start, came_from[c], <<c>> \o path)

\* the for loop over _NEIGHBORS of the node <<x, y>> popped with cost g;
\* A is [open_set, came_from, g_costs]
RECURSIVE ExpandNeighbors(_, _, _, _, _, _, _)
ExpandNeighbors(tilemap, A, x, y, g, goal, k) ==
    IF k > Len(NEIGHBORS) THEN A
    ELSE LET dx == NEIGHBORS[k][1]
             dy == NEIGHBORS[k][2]
             nx == x + dx
             ny == y + dy
             new_g == g + NEIGHBORS[k][3]
             skip ==
                \/ ~is_walkable(tilemap, nx, ny)
                \/ /\ dx # 0 /\ dy # 0
                   /\ \/ ~is_walkable(tilemap, x + dx, y)
                      \/ ~is_walkable(tilemap, x, y + dy)
                \/ ~(new_g < DictGet(A.g_costs, <<nx, ny>>, new_g + 1))
             A1 == IF skip THEN A
                   ELSE [open_set |-> A.open_set \cup
                              {<<new_g + heuristic(nx, ny, goal[1], goal[2]), ny, nx, new_g>>},
                         came_from |-> DictSet(A.came_from, <<nx, ny>>, <<x, y>>),
                         g_costs |-> DictSet(A.g_costs, <<nx, ny>>, new_g)]
         IN  ExpandNeighbors(tilemap, A1, x, y, g, goal, k + 1)

\* while open_set: ...
RECURSIVE AStarLoop(_, _, _, _)
AStarLoop(tilemap, A, start, goal) ==
    IF A.open_set = {} THEN <<>>
    ELSE LET n == HeapMin(A.open_set)
             x == n[3]
             y == n[2]
             g == n[4]
             popped == [A EXCEPT !.open_set = @ \ {n}]
         IN  IF <<x, y>> = goal THEN ReconstructPath(A.came_from, start, goal, <<>>)
             ELSE IF g > DictGet(A.g_costs, <<x, y>>, g + 1)
                  THEN AStarLoop(tilemap, popped, start, goal)
             ELSE AStarLoop(tilemap,
                            ExpandNeighbors(tilemap, popped, x, y, g, goal, 1),
                            start, goal)

\* find_path: the tiles from the first step after the start to the goal;
\* empty when there is no path or start = goal
find_path(tilemap, start_x, start_y, goal_x, goal_y) ==
    IF start_x = goal_x /\ start_y = goal_y THEN <<>>
    ELSE IF ~is_walkable(tilemap, start_x, start_y) THEN <<>>
    ELSE IF ~is_walkable(tilemap, goal_x, goal_y) THEN <<>>
    ELSE AStarLoop(tilemap,
                   [open_set |-> {<<heuristic(start_x, start_y, goal_x, goal_y),
                                    start_y, start_x, 0>>},
                    came_from |-> EmptyDict,
                    g_costs |-> DictSet(EmptyDict, <<start_x, start_y>>, 0)],
                   <<start_x, start_y>>, <<goal_x, goal_y>>)

\* the milli_path of a tile path: the centres of its tiles
MilliPath(tile_path) ==
    [i \in 1..Len(tile_path) |-> <<TileCentre(tile_path[i][1]), TileCentre(tile_path[i][2])>>]

-----------------------------------------------------------------------------
(* state.py: EntityType, EntityState, Entity and GameState.  A game state  *)
(* is a record; entities is the list state.entities, in list order.        *)

ANT       == 0
QUEEN     == 1
HIVE      == 2
HIVE_SITE == 3
CORPSE    == 4
APHID     == 5
BEETLE    == 6
MANTIS    == 7
SPITTER   == 8

IDLE       == 0
MOVING     == 1
ATTACKING  == 2
HARVESTING == 3
FOUNDING   == 4

MORPH_SPITTER == 8

ANT_HP == 20
ANT_DAMAGE == 5
ANT_SPEED == 400
ANT_SPAWN_COST == 10
ANT_SPAWN_COOLDOWN == 20
ANT_CORPSE_JELLY == 5
QUEEN_HP == 50
QUEEN_SPEED == 30
QUEEN_MERGE_COST == 5
HIVE_HP == 200
HIVE_PASSIVE_INCOME == 2
MERGE_RANGE == 3
FOUND_HIVE_RANGE == 1
APHID_HP == 5
APHID_DAMAGE == 0
APHID_JELLY == 3
BEETLE_HP == 80
BEETLE_DAMAGE == 8
BEETLE_JELLY == 25
MANTIS_HP == 200
MANTIS_DAMAGE == 20
MANTIS_JELLY == 80
BEETLE_SPEED == 20
MANTIS_SPEED == 15
WILDLIFE_SPAWN_INTERVAL == 100
WILDLIFE_HIVE_EXCLUSION == 10
WILDLIFE_MAX_APHIDS == 20
WILDLIFE_MAX_BEETLES == 5
WILDLIFE_MAX_MANTIS == 2
WILDLIFE_AGGRO_RANGE == 5
HARVEST_RANGE == 2
HARVEST_RATE == 5
ANT_CARRY_CAPACITY == 10
STARTING_JELLY == 50
CORPSE_DECAY_TICKS == 150
ANT_SIGHT == 12
QUEEN_SIGHT == 7
HIVE_SIGHT == 16
ATTACK_RANGE == 1
SEPARATION_RADIUS == 600
SEPARATION_FORCE == 80

\* config values hive.py imports for the spitter
SPITTER_HP == 15
SPITTER_DAMAGE == 8
SPITTER_SPEED == 300
SPITTER_MORPH_COST == 8
SPITTER_CORPSE_JELLY == 5
SPITTER_SIGHT == 12
SPITTER_ATTACK_RANGE == 4

\* the fields an Entity has when create_entity passes no keyword for them
EntityDefaults ==
    [speed |-> ANT_SPEED, hp |-> ANT_HP, max_hp |-> ANT_HP, damage |-> 0,
     state |-> IDLE, path |-> <<>>, carrying |-> 0, jelly_value |-> 0,
     sight |-> 0, cooldown |-> 0, target_entity_id |-> -1, attack_range |-> 1]

\* Entity.is_moving
is_moving(e) == e.x # e.target_x \/ e.y # e.target_y

\* GameState.__init__ on a tile map: no entities, tick 0
NewGameState(seed_hi, seed_lo, tilemap) ==
    [tick |-> 0, entities |-> <<>>, rng_state |-> <<seed_hi, seed_lo>>,
     next_entity_id |-> 0, game_over |-> FALSE, winner |-> -1,
     tilemap |-> tilemap,
     visibility |-> [p \in 0..1 |-> [i \in 1..(tilemap.width * tilemap.height) |-> 0]],
     player_jelly |-> [p \in 0..1 |-> STARTING_JELLY]]

\* GameState.create_entity: kwargs is a record of the keyword arguments
\* create_entity numbering the entity after the last live one
create_entity_after_last(state, player_id, x, y, entity_type, kwargs) ==
    [state EXCEPT
        !.entities = Append(@,
            kwargs @@
            [entity_id |-> IF state.entities = <<>> THEN 0
                           ELSE state.entities[Len(state.entities)].entity_id + 1,
             entity_type |-> entity_type,
             player_id |-> player_id, x |-> x, y |-> y, target_x |-> x, target_y |-> y]
            @@ EntityDefaults),
        !.next_entity_id = @ + 1]

create_entity(state, player_id, x, y, entity_type, kwargs) ==
    [state EXCEPT
        !.entities = Append(@,
            kwargs @@
            [entity_id |-> state.next_entity_id, entity_type |-> entity_type,
             player_id |-> player_id, x |-> x, y |-> y, target_x |-> x, target_y |-> y]
            @@ EntityDefaults),
        !.next_entity_id = @ + 1]

\* the index in state.entities of the first entity with this id, 0 for None
EntityIndex(entities, entity_id) ==
    IF \E i \in DOMAIN entities : entities[i].entity_id = entity_id
    THEN CHOOSE i \in DOMAIN entities :
            /\ entities[i].entity_id = entity_id
            /\ \A j \in 1..(i - 1) : entities[j].entity_id # entity_id
    ELSE 0

\* GameState.get_entity; callers test EntityIndex for None first
get_entity(state, entity_id) == state.entities[EntityIndex(state.entities, entity_id)]

HasEntity(state, entity_id) == EntityIndex(state.entities, entity_id) # 0

\* the list with the entities of the set of ids removed, order kept
RemoveIds(entities, ids) == SelectSeq(entities, LAMBDA e : e.entity_id \notin ids)

\* GameState.next_random: one LCG step modulo 2^32 on 16-bit halves
\* <<hi, lo>>, 1664525 = 25 * 2^16 + 26125, 1013904223 = 15470 * 2^16 + 62303
lcg_next(rng) ==
    LET low == rng[2] * 26125 + 62303
        high == rng[1] * 26125 + rng[2] * 25 + 15470 + low \div 65536
    IN  <<high % 65536, low % 65536>>

\* rng_state % bound, for bound < 2^15
rng_mod(rng, bound) == ((rng[1] % bound) * (65536 % bound) + rng[2]) % bound

\* the state after next_random, and the value it returned
next_random_state(state) == [state EXCEPT !.rng_state = lcg_next(@)]
next_random(state, bound) == rng_mod(lcg_next(state.rng_state), bound)

\* the nearest of the indices S by the squared distance D, below limit;
\* a scan that keeps the first strictly smaller one.  0 for None
Nearest(S, D(_), limit) ==
    LET C == {i \in S : D(i) < limit}
    IN  IF C = {} THEN 0
        ELSE CHOOSE i \in C : \A j \in C : D(i) < D(j) \/ (D(i) = D(j) /\ i <= j)

DistSq(a, b) == (a.x - b.x) * (a.x - b.x) + (a.y - b.y) * (a.y - b.y)

\* the entity with a path to the tile (tile_x, tile_y), or, when find_path
\* returns nothing, with the direct target (goal_x, goal_y) and no path
pathfind_to_tile(tilemap, entity, tile_x, tile_y, goal_x, goal_y) ==
    LET tile_path == find_path(tilemap, entity.x \div MILLI_TILES_PER_TILE,
                               entity.y \div MILLI_TILES_PER_TILE, tile_x, tile_y)
        milli_path == MilliPath(tile_path)
    IN  IF tile_path = <<>>
        THEN [entity EXCEPT !.target_x = goal_x, !.target_y = goal_y, !.path = <<>>]
        ELSE [entity EXCEPT !.path = milli_path,
                            !.target_x = milli_path[Len(milli_path)][1],
                            !.target_y = milli_path[Len(milli_path)][2]]

\* harvest.py _pathfind_to
pathfind_to(state, entity, goal_x, goal_y) ==
    pathfind_to_tile(state.tilemap, entity, goal_x \div MILLI_TILES_PER_TILE,
                     goal_y \div MILLI_TILES_PER_TILE, goal_x, goal_y)

-----------------------------------------------------------------------------
(* tick.py: the command handlers of _process_commands.                     *)

BFS_DIRS == { <<1, 0>>, <<-1, 0>>, <<0, 1>>, <<0, -1>>,
              <<1, 1>>, <<1, -1>>, <<-1, 1>>, <<-1, -1>> }

\* one layer of _find_nearest_walkable; <<>> stands for None
RECURSIVE NearestWalkableLayer(_, _, _, _, _, _)
NearestWalkableLayer(tilemap, tile_x, tile_y, visited, current, layers) ==
    IF layers = 0 \/ current = {} THEN <<>>
    ELSE LET fresh == {<<c[1] + d[1], c[2] + d[2]>> : c \in current, d \in BFS_DIRS} \ visited
             candidates == {n \in fresh : is_walkable(tilemap, n[1], n[2])}
             key(n) == <<(n[1] - tile_x) * (n[1] - tile_x) + (n[2] - tile_y) * (n[2] - tile_y),
                         n[2], n[1]>>
         IN  IF candidates # {}
             THEN CHOOSE n \in candidates :
                     \A o \in candidates : o = n \/ TupleLess(key(n), key(o))
             ELSE NearestWalkableLayer(tilemap, tile_x, tile_y, visited \cup fresh,
                                       fresh \ candidates, layers - 1)

find_nearest_walkable(tilemap, tile_x, tile_y) ==
    NearestWalkableLayer(tilemap, tile_x, tile_y, {<<tile_x, tile_y>>},
                         {<<tile_x, tile_y>>}, 15)

\* the loop "for entity_id in cmd.entity_ids" of a handler that changes
\* only the entity it visits: F is applied to the entities Accepts lets through
ForOwned(state, cmd, Accepts(_), F(_)) ==
    [state EXCEPT !.entities =
        [i \in DOMAIN @ |->
            IF /\ \E k \in DOMAIN cmd.entity_ids :
                     EntityIndex(state.entities, cmd.entity_ids[k]) = i
               /\ @[i].player_id = cmd.player_id
               /\ Accepts(@[i])
            THEN F(@[i]) ELSE @[i]]]

handle_move(state, cmd) ==
    LET tx0 == cmd.target_x \div MILLI_TILES_PER_TILE
        ty0 == cmd.target_y \div MILLI_TILES_PER_TILE
        walkable == is_walkable(state.tilemap, tx0, ty0)
        nearest == IF walkable THEN <<tx0, ty0>>
                   ELSE find_nearest_walkable(state.tilemap, tx0, ty0)
    IN  IF nearest = <<>> THEN state
        ELSE ForOwned(state, cmd, LAMBDA e : TRUE,
                LAMBDA e : pathfind_to_tile(state.tilemap, e, nearest[1], nearest[2],
                              IF walkable THEN cmd.target_x ELSE TileCentre(nearest[1]),
                              IF walkable THEN cmd.target_y ELSE TileCentre(nearest[2])))

handle_stop(state, cmd) ==
    ForOwned(state, cmd, LAMBDA e : TRUE,
             LAMBDA e : [e EXCEPT !.target_x = e.x, !.target_y = e.y, !.path = <<>>])

handle_attack(state, cmd) ==
    IF ~HasEntity(state, cmd.target_entity_id) THEN state
    ELSE LET target == get_entity(state, cmd.target_entity_id)
         IN  ForOwned(state, cmd, LAMBDA e : e.damage > 0,
                LAMBDA e : pathfind_to_tile(state.tilemap,
                              [e EXCEPT !.target_entity_id = target.entity_id],
                              target.x \div MILLI_TILES_PER_TILE,
                              target.y \div MILLI_TILES_PER_TILE, target.x, target.y))

handle_harvest(state, cmd) ==
    IF cmd.target_entity_id >= 0 /\ ~HasEntity(state, cmd.target_entity_id) THEN state
    ELSE LET goal == IF cmd.target_entity_id >= 0
                     THEN <<get_entity(state, cmd.target_entity_id).x,
                            get_entity(state, cmd.target_entity_id).y>>
                     ELSE <<cmd.target_x, cmd.target_y>>
             tx0 == goal[1] \div MILLI_TILES_PER_TILE
             ty0 == goal[2] \div MILLI_TILES_PER_TILE
             walkable == is_walkable(state.tilemap, tx0, ty0)
             nearest == IF walkable THEN <<tx0, ty0>>
                        ELSE find_nearest_walkable(state.tilemap, tx0, ty0)
         IN  IF nearest = <<>> THEN state
             ELSE ForOwned(state, cmd, LAMBDA e : e.entity_type = ANT,
                    LAMBDA e : pathfind_to_tile(state.tilemap,
                        [e EXCEPT !.state = HARVESTING,
                                  !.target_entity_id =
                                      IF cmd.target_entity_id >= 0
                                      THEN cmd.target_entity_id ELSE @],
                        nearest[1], nearest[2],
                        IF walkable THEN goal[1] ELSE TileCentre(nearest[1]),
                        IF walkable THEN goal[2] ELSE TileCentre(nearest[2])))

-----------------------------------------------------------------------------
(* hive.py: the command handlers.                                          *)

MERGE_RANGE_SQ == (MERGE_RANGE * MILLI_TILES_PER_TILE) * (MERGE_RANGE * MILLI_TILES_PER_TILE)
FOUND_RANGE_SQ == (FOUND_HIVE_RANGE * MILLI_TILES_PER_TILE) * (FOUND_HIVE_RANGE * MILLI_TILES_PER_TILE)

\* the target of the command is a hive of the player who sent it
OwnHiveTarget(state, cmd) ==
    /\ HasEntity(state, cmd.target_entity_id)
    /\ get_entity(state, cmd.target_entity_id).entity_type = HIVE
    /\ get_entity(state, cmd.target_entity_id).player_id = cmd.player_id

\* handle_spawn_ant without the test of the player's jelly
handle_spawn_ant_on_credit(state, cmd) ==
    IF ~OwnHiveTarget(state, cmd) THEN state
    ELSE IF get_entity(state, cmd.target_entity_id).cooldown > 0 THEN state
    ELSE [state EXCEPT
            !.player_jelly = DictSet(@, cmd.player_id,
                                     DictGet(@, cmd.player_id, 0) - ANT_SPAWN_COST),
            !.entities[EntityIndex(state.entities, cmd.target_entity_id)].cooldown =
                ANT_SPAWN_COOLDOWN]

handle_spawn_ant(state, cmd) ==
    IF ~OwnHiveTarget(state, cmd) THEN state
    ELSE IF get_entity(state, cmd.target_entity_id).cooldown > 0 THEN state
    ELSE IF DictGet(state.player_jelly, cmd.player_id, 0) < ANT_SPAWN_COST THEN state
    ELSE [state EXCEPT
            !.player_jelly = DictSet(@, cmd.player_id,
                                     DictGet(@, cmd.player_id, 0) - ANT_SPAWN_COST),
            !.entities[EntityIndex(state.entities, cmd.target_entity_id)].cooldown =
                ANT_SPAWN_COOLDOWN]

handle_merge_queen(state, cmd) ==
    IF ~OwnHiveTarget(state, cmd) THEN state
    ELSE LET hive == get_entity(state, cmd.target_entity_id)
             valid(eid) ==
                /\ HasEntity(state, eid)
                /\ get_entity(state, eid).entity_type = ANT
                /\ get_entity(state, eid).player_id = cmd.player_id
                /\ DistSq(get_entity(state, eid), hive) <= MERGE_RANGE_SQ
             valid_ants == SelectSeq(cmd.entity_ids, valid)
         IN  IF Len(valid_ants) < QUEEN_MERGE_COST THEN state
             ELSE create_entity(
                    [state EXCEPT !.entities =
                        RemoveIds(@, {valid_ants[k] : k \in 1..QUEEN_MERGE_COST})],
                    cmd.player_id, hive.x, hive.y, QUEEN,
                    [speed |-> QUEEN_SPEED, hp |-> QUEEN_HP, max_hp |-> QUEEN_HP,
                     damage |-> 0, sight |-> QUEEN_SIGHT])

handle_found_hive(state, cmd) ==
    IF Len(cmd.entity_ids) # 1 THEN state
    ELSE IF ~HasEntity(state, cmd.entity_ids[1]) THEN state
    ELSE IF get_entity(state, cmd.entity_ids[1]).entity_type # QUEEN THEN state
    ELSE IF get_entity(state, cmd.entity_ids[1]).player_id # cmd.player_id THEN state
    ELSE IF ~HasEntity(state, cmd.target_entity_id) THEN state
    ELSE IF get_entity(state, cmd.target_entity_id).entity_type # HIVE_SITE THEN state
    ELSE LET site == get_entity(state, cmd.target_entity_id)
             qi == EntityIndex(state.entities, cmd.entity_ids[1])
         IN  [state EXCEPT !.entities[qi] =
                [pathfind_to_tile(state.tilemap, @, site.x \div MILLI_TILES_PER_TILE,
                                  site.y \div MILLI_TILES_PER_TILE, site.x, site.y)
                 EXCEPT !.state = FOUNDING]]

handle_morph_spitter(state, cmd) ==
    IF Len(cmd.entity_ids) # 1 THEN state
    ELSE IF ~HasEntity(state, cmd.entity_ids[1]) THEN state
    ELSE IF get_entity(state, cmd.entity_ids[1]).entity_type # ANT THEN state
    ELSE IF get_entity(state, cmd.entity_ids[1]).player_id # cmd.player_id THEN state
    ELSE IF ~OwnHiveTarget(state, cmd) THEN state
    ELSE IF DistSq(get_entity(state, cmd.entity_ids[1]),
                   get_entity(state, cmd.target_entity_id)) > MERGE_RANGE_SQ THEN state
    ELSE IF DictGet(state.player_jelly, cmd.player_id, 0) < SPITTER_MORPH_COST THEN state
    ELSE LET ant == get_entity(state, cmd.entity_ids[1])
         IN  create_entity(
                [state EXCEPT
                    !.player_jelly = DictSet(@, cmd.player_id,
                                      DictGet(@, cmd.player_id, 0) - SPITTER_MORPH_COST),
                    !.entities = RemoveIds(@, {ant.entity_id})],
                cmd.player_id, ant.x, ant.y, SPITTER,
                [speed |-> SPITTER_SPEED, hp |-> SPITTER_HP, max_hp |-> SPITTER_HP,
                 damage |-> SPITTER_DAMAGE, jelly_value |-> SPITTER_CORPSE_JELLY,
                 sight |-> SPITTER_SIGHT, attack_range |-> SPITTER_ATTACK_RANGE])

\* the dispatch of _process_commands on one command
apply_command(state, cmd) ==
    CASE cmd.command_type = MOVE -> handle_move(state, cmd)
      [] cmd.command_type = STOP -> handle_stop(state, cmd)
      [] cmd.command_type = SPAWN_ANT -> handle_spawn_ant(state, cmd)
      [] cmd.command_type = MERGE_QUEEN -> handle_merge_queen(state, cmd)
      [] cmd.command_type = FOUND_HIVE -> handle_found_hive(state, cmd)
      [] cmd.command_type = ATTACK -> handle_attack(state, cmd)
      [] cmd.command_type = HARVEST -> handle_harvest(state, cmd)
      [] cmd.command_type = MORPH_SPITTER -> handle_morph_spitter(state, cmd)
      [] OTHER -> state

RECURSIVE process_commands(_, _)
process_commands(state, commands) ==
    IF commands = <<>> THEN state
    ELSE process_commands(apply_command(state, Head(commands)), Tail(commands))

-----------------------------------------------------------------------------
(* tests/scenario.py: the entity builders of Scenario; tile is <<x, y>>.   *)

add_ant(state, player, tile) ==
    create_entity(state, player, TileCentre(tile[1]), TileCentre(tile[2]), ANT,
        [speed |-> ANT_SPEED, hp |-> ANT_HP, max_hp |-> ANT_HP, damage |-> ANT_DAMAGE,
         jelly_value |-> ANT_CORPSE_JELLY, sight |-> ANT_SIGHT])

add_hive(state, player, tile) ==
    create_entity(state, player, TileCentre(tile[1]), TileCentre(tile[2]), HIVE,
        [speed |-> 0, hp |-> HIVE_HP, max_hp |-> HIVE_HP, damage |-> 0,
         sight |-> HIVE_SIGHT])

add_corpse(state, tile, jelly) ==
    create_entity(state, -1, TileCentre(tile[1]), TileCentre(tile[2]), CORPSE,
        [speed |-> 0, hp |-> CORPSE_DECAY_TICKS, max_hp |-> CORPSE_DECAY_TICKS,
         damage |-> 0, jelly_value |-> jelly, sight |-> 0])

add_queen(state, player, tile) ==
    create_entity(state, player, TileCentre(tile[1]), TileCentre(tile[2]), QUEEN,
        [speed |-> QUEEN_SPEED, hp |-> QUEEN_HP, max_hp |-> QUEEN_HP, damage |-> 0,
         sight |-> QUEEN_SIGHT])

add_hive_site(state, tile) ==
    create_entity(state, -1, TileCentre(tile[1]), TileCentre(tile[2]), HIVE_SITE,
        [speed |-> 0, hp |-> 0, max_hp |-> 0, damage |-> 0, sight |-> 0])

add_aphid(state, tile) ==
    create_entity(state, -1, TileCentre(tile[1]), TileCentre(tile[2]), APHID,
        [speed |-> 0, hp |-> APHID_HP, max_hp |-> APHID_HP, damage |-> APHID_DAMAGE,
         jelly_value |-> APHID_JELLY, sight |-> 0])

add_beetle(state, tile) ==
    create_entity(state, -1, TileCentre(tile[1]), TileCentre(tile[2]), BEETLE,
        [speed |-> BEETLE_SPEED, hp |-> BEETLE_HP, max_hp |-> BEETLE_HP,
         damage |-> BEETLE_DAMAGE, jelly_value |-> BEETLE_JELLY,
         sight |-> WILDLIFE_AGGRO_RANGE])

\* Scenario.set_jelly
set_jelly(state, player, amount) == [state EXCEPT !.player_jelly[player] = amount]

-----------------------------------------------------------------------------
(* SpecCmd: one command of any kind applied by _process_commands to a      *)
(* scene that holds every kind of entity the handlers look at.             *)

\* ids: 0 hive of 0 | 1..5 ants of 0 beside it | 6 ant of 0 far from it |
\*      7 ant of 1 | 8 queen of 0 | 9 hive site | 10 corpse | 11 hive of 1
CmdSceneEntities ==
    add_hive(add_corpse(add_hive_site(add_queen(add_ant(add_ant(
    add_ant(add_ant(add_ant(add_ant(add_ant(add_hive(
        NewGameState(0, 42, open_map(10, 6)),
        0, <<2, 2>>), 0, <<1, 1>>), 0, <<2, 1>>), 0, <<3, 1>>), 0, <<1, 2>>),
        0, <<3, 2>>), 0, <<7, 3>>), 1, <<4, 3>>), 0, <<3, 3>>), <<6, 2>>),
        <<5, 3>>, 10), 1, <<8, 4>>)

\* the scene with player 0 holding jelly and hive 0 having cooldown left
CmdScene(jelly, cooldown) ==
    [set_jelly(CmdSceneEntities, 0, jelly) EXCEPT !.entities[1].cooldown = cooldown]

CmdJelly == {5, 50}
CmdCooldown == {0, 3}
CmdEntityIds ==
    { <<>>, <<1>>, <<6>>, <<7>>, <<8>>, <<12>>, <<1, 7>>, <<7, 12, 6>>,
      <<1, 2, 3, 4, 5>>, <<1, 2, 3, 4, 6>>, <<1, 1, 1, 1, 1>> }
CmdTargetIds == {-1, 0, 7, 8, 9, 10, 11, 12}
\* a dirt tile, a tile of the rock border, a tile off the map
CmdTargets == { <<6500, 4500>>, <<9500, 3500>>, <<-30500, 2500>> }
CmdKinds == CommandTypes \cup {MORPH_SPITTER}

InitCmd ==
    /\ InitNet /\ InitCodecIdle
    /\ calc = <<>>
    /\ sim_hist = <<>>
    /\ \E jelly \in CmdJelly, cooldown \in CmdCooldown : sim = CmdScene(jelly, cooldown)

\* _process_commands(state, [cmd])
ApplyCommand ==
    /\ sim # <<>> /\ sim_hist = <<>>
    /\ \E kind \in CmdKinds, player \in 0..1, ids \in CmdEntityIds,
          te \in CmdTargetIds, t \in CmdTargets :
          LET cmd == Command(kind, player, sim.tick, ids, t[1], t[2], te)
          IN  /\ sim' = process_commands(sim, <<cmd>>)
              /\ sim_hist' = <<cmd>>
    /\ UNCHANGED <<netVars, codecVars, calc>>

NextCmd == ApplyCommand
SpecCmd == InitCmd /\ [][NextCmd]_vars

\* the entities listed in the command that exist and belong to its sender
OwnedListed(state, cmd) ==
    { i \in DOMAIN state.entities :
        /\ \E k \in DOMAIN cmd.entity_ids : EntityIndex(state.entities, cmd.entity_ids[k]) = i
        /\ state.entities[i].player_id = cmd.player_id }

\* the command names exactly one entity, of this kind, owned by the sender
OneOwned(state, cmd, kind) ==
    /\ Len(cmd.entity_ids) = 1
    /\ HasEntity(state, cmd.entity_ids[1])
    /\ get_entity(state, cmd.entity_ids[1]).entity_type = kind
    /\ get_entity(state, cmd.entity_ids[1]).player_id = cmd.player_id

TargetIs(state, cmd, kind) ==
    /\ HasEntity(state, cmd.target_entity_id)
    /\ get_entity(state, cmd.target_entity_id).entity_type = kind

\* the listed owned ants within merge range of the target hive, with repeats
MergeableAnts(state, cmd) ==
    SelectSeq(cmd.entity_ids, LAMBDA eid :
        /\ HasEntity(state, eid)
        /\ get_entity(state, eid).entity_type = ANT
        /\ get_entity(state, eid).player_id = cmd.player_id
        /\ DistSq(get_entity(state, eid), get_entity(state, cmd.target_entity_id))
              <= MERGE_RANGE_SQ)

\* the command fails validation, HARVEST's target kind left aside: a missing
\* entity or target, an entity or hive of another player, a target of the
\* wrong kind, too little jelly, a hive on cooldown, units out of merge range
FailsValidationBasic(state, cmd) ==
    CASE cmd.command_type \in {MOVE, STOP} -> OwnedListed(state, cmd) = {}
      [] cmd.command_type = ATTACK ->
            \/ ~HasEntity(state, cmd.target_entity_id)
            \/ \A i \in OwnedListed(state, cmd) : state.entities[i].damage <= 0
      [] cmd.command_type = HARVEST ->
            \/ cmd.target_entity_id >= 0 /\ ~HasEntity(state, cmd.target_entity_id)
            \/ \A i \in OwnedListed(state, cmd) : state.entities[i].entity_type # ANT
      [] cmd.command_type = SPAWN_ANT ->
            \/ ~OwnHiveTarget(state, cmd)
            \/ get_entity(state, cmd.target_entity_id).cooldown > 0
            \/ state.player_jelly[cmd.player_id] < ANT_SPAWN_COST
      [] cmd.command_type = MERGE_QUEEN ->
            \/ ~OwnHiveTarget(state, cmd)
            \/ Len(MergeableAnts(state, cmd)) < QUEEN_MERGE_COST
      [] cmd.command_type = FOUND_HIVE ->
            \/ ~OneOwned(state, cmd, QUEEN)
            \/ ~TargetIs(state, cmd, HIVE_SITE)
      [] cmd.command_type = MORPH_SPITTER ->
            \/ ~OneOwned(state, cmd, ANT)
            \/ ~OwnHiveTarget(state, cmd)
            \/ DistSq(get_entity(state, cmd.entity_ids[1]),
                      get_entity(state, cmd.target_entity_id)) > MERGE_RANGE_SQ
            \/ state.player_jelly[cmd.player_id] < SPITTER_MORPH_COST

\* ... and a HARVEST that names a target which is not a corpse
FailsValidation(state, cmd) ==
    \/ FailsValidationBasic(state, cmd)
    \/ /\ cmd.command_type = HARVEST /\ cmd.target_entity_id >= 0
       /\ ~TargetIs(state, cmd, CORPSE)

\* the step applies a command
CommandApplied == sim_hist = <<>> /\ sim_hist' # <<>>

\* a command that lists entities of both players leaves the other's alone
OthersUntouched ==
    sim_hist'[1].command_type \in {MOVE, STOP, ATTACK, HARVEST} =>
        /\ Len(sim'.entities) = Len(sim.entities)
        /\ \A i \in DOMAIN sim.entities :
              i \notin OwnedListed(sim, sim_hist'[1]) => sim'.entities[i] = sim.entities[i]
        /\ sim' = [sim EXCEPT !.entities = sim'.entities]

C12_Step ==
    CommandApplied =>
        /\ FailsValidation(sim, sim_hist'[1]) => sim' = sim
        /\ OthersUntouched

C12_BasicStep ==
    CommandApplied =>
        /\ FailsValidationBasic(sim, sim_hist'[1]) => sim' = sim
        /\ OthersUntouched

\* C12: a command that fails validation (missing entity, entity or hive of
\* another player, target of the wrong kind, too little jelly, hive on
\* cooldown, units out of merge range) leaves the whole game state as it was,
\* for every command kind, and a command listing entities of both players
\* changes only those of its sender.
C12_FailedCommandIsNoOp == [][C12_Step]_vars

\* C12, short of the target kind of HARVEST: every other failed validation
\* leaves the state as it was.
C12_NoOpButHarvestTarget == [][C12_BasicStep]_vars

\* a HARVEST of player 0 for its ant 1 on hive 0 has put the ant to harvesting
C12_HarvestOnHive ==
    /\ sim_hist # <<>>
    /\ sim_hist[1].command_type = HARVEST /\ sim_hist[1].player_id = 0
    /\ sim_hist[1].entity_ids = <<1>> /\ sim_hist[1].target_entity_id = 0
    /\ sim.entities[2].state = HARVESTING /\ sim.entities[2].target_entity_id = 0

-----------------------------------------------------------------------------
(* tick.py: aggro, movement and separation.  A loop over state.entities    *)
(* whose body changes only the entity it visits, and reads of the others   *)
(* only fields no body changes, is the map of its body over the list.      *)

AGGRO_TARGETS == {ANT, QUEEN, HIVE, SPITTER, APHID, BEETLE, MANTIS}

\* sight * MILLI_TILES_PER_TILE // 4, squared
AggroRangeSq(entity) ==
    ((entity.sight * MILLI_TILES_PER_TILE) \div 4) * ((entity.sight * MILLI_TILES_PER_TILE) \div 4)

\* the body of the loop of _check_aggro for the entity at index i
check_aggro_one(state, i) ==
    LET entity == state.entities[i]
        enemy(j) ==
            /\ state.entities[j].entity_type \in AGGRO_TARGETS
            /\ state.entities[j].hp > 0
            /\ state.entities[j].player_id # entity.player_id
            /\ ~(entity.player_id = -1 /\ state.entities[j].player_id = -1)
        best == Nearest({j \in DOMAIN state.entities : enemy(j)},
                        LAMBDA j : DistSq(entity, state.entities[j]),
                        AggroRangeSq(entity) + 1)
    IN  IF \/ entity.target_entity_id = -1
           \/ entity.damage <= 0
           \/ ~is_moving(entity) /\ entity.path = <<>>
           \/ best = 0
        THEN entity
        ELSE IF state.entities[best].entity_id = entity.target_entity_id THEN entity
        ELSE pathfind_to(state,
                         [entity EXCEPT !.target_entity_id = state.entities[best].entity_id],
                         state.entities[best].x, state.entities[best].y)

check_aggro(state) ==
    [state EXCEPT !.entities = [i \in DOMAIN @ |-> check_aggro_one(state, i)]]

\* the body of the loop of _check_harvest_aggro for the entity at index i
check_harvest_aggro_one(state, i) ==
    LET entity == state.entities[i]
        best == Nearest({j \in DOMAIN state.entities :
                            /\ state.entities[j].entity_type = CORPSE
                            /\ state.entities[j].hp > 0},
                        LAMBDA j : DistSq(entity, state.entities[j]),
                        AggroRangeSq(entity) + 1)
    IN  IF \/ entity.state # HARVESTING
           \/ entity.carrying > 0
           \/ ~is_moving(entity) /\ entity.path = <<>>
           \/ best = 0
        THEN entity
        ELSE IF state.entities[best].entity_id = entity.target_entity_id THEN entity
        ELSE pathfind_to(state,
                         [entity EXCEPT !.target_entity_id = state.entities[best].entity_id],
                         state.entities[best].x, state.entities[best].y)

check_harvest_aggro(state) ==
    [state EXCEPT !.entities = [i \in DOMAIN @ |-> check_harvest_aggro_one(state, i)]]

\* _move_toward, with the distance passed in
move_toward_dist(entity, goal_x, goal_y, dist) ==
    IF dist = 0 THEN entity
    ELSE IF dist <= entity.speed THEN [entity EXCEPT !.x = goal_x, !.y = goal_y]
    ELSE [entity EXCEPT !.x = @ + ((goal_x - entity.x) * entity.speed) \div dist,
                        !.y = @ + ((goal_y - entity.y) * entity.speed) \div dist]

move_toward(entity, goal_x, goal_y) ==
    move_toward_dist(entity, goal_x, goal_y,
        isqrt((goal_x - entity.x) * (goal_x - entity.x)
              + (goal_y - entity.y) * (goal_y - entity.y)))

\* the rest of _follow_path once the entity has moved toward the waypoint
follow_path_arrive(moved) ==
    LET wx == moved.path[1][1]
        wy == moved.path[1][2]
    IN  IF (wx - moved.x) * (wx - moved.x) + (wy - moved.y) * (wy - moved.y)
              <= moved.speed * moved.speed
        THEN IF Len(moved.path) = 1
             THEN [moved EXCEPT !.x = wx, !.y = wy, !.path = <<>>,
                                !.target_x = wx, !.target_y = wy]
             ELSE [moved EXCEPT !.x = wx, !.y = wy, !.path = Tail(@)]
        ELSE moved

follow_path(entity) ==
    follow_path_arrive(move_toward(entity, entity.path[1][1], entity.path[1][2]))

update_movement(state) ==
    [state EXCEPT !.entities =
        [i \in DOMAIN @ |->
            IF @[i].path # <<>> THEN follow_path(@[i])
            ELSE IF is_moving(@[i]) THEN move_toward(@[i], @[i].target_x, @[i].target_y)
            ELSE @[i]]]

SEP_RADIUS_SQ == SEPARATION_RADIUS * SEPARATION_RADIUS

\* the push of entity j on entity i, <<px, py>>
push_from(ei, ej) ==
    LET dx == ei.x - ej.x
        dy == ei.y - ej.y
        dist_sq == dx * dx + dy * dy
    IN  IF ej.speed = 0 \/ dist_sq >= SEP_RADIUS_SQ THEN <<0, 0>>
        ELSE IF dist_sq = 0
             THEN IF ei.entity_id > ej.entity_id THEN <<SEPARATION_FORCE, 0>>
                  ELSE <<-SEPARATION_FORCE, 0>>
        ELSE <<(dx * SEPARATION_FORCE) \div isqrt(dist_sq),
               (dy * SEPARATION_FORCE) \div isqrt(dist_sq)>>

RECURSIVE SumPushes(_, _, _)
SumPushes(entities, i, j) ==
    IF j > Len(entities) THEN <<0, 0>>
    ELSE LET rest == SumPushes(entities, i, j + 1)
             one == IF i = j THEN <<0, 0>> ELSE push_from(entities[i], entities[j])
         IN  <<one[1] + rest[1], one[2] + rest[2]>>

\* phase 1 of _apply_separation for entity i
push_on(entities, i) ==
    IF entities[i].speed = 0 THEN <<0, 0>> ELSE SumPushes(entities, i, 1)

\* phase 2 for one entity: the push is applied when the new tile is walkable
apply_push(tilemap, ei, push) ==
    IF push = <<0, 0>> THEN ei
    ELSE IF is_walkable(tilemap, (ei.x + push[1]) \div MILLI_TILES_PER_TILE,
                        (ei.y + push[2]) \div MILLI_TILES_PER_TILE)
         THEN [ei EXCEPT !.x = @ + push[1], !.y = @ + push[2]]
         ELSE ei

apply_separation(state) ==
    [state EXCEPT !.entities =
        [i \in DOMAIN @ |-> apply_push(state.tilemap, @[i], push_on(state.entities, i))]]

-----------------------------------------------------------------------------
(* harvest.py: process_harvesting.  The entity at index i is the ant the   *)
(* loop visits; each helper returns the game state after it.               *)

HARVEST_RANGE_SQ == (HARVEST_RANGE * MILLI_TILES_PER_TILE) * (HARVEST_RANGE * MILLI_TILES_PER_TILE)

go_idle(state, i) ==
    [state EXCEPT !.entities[i].state = IDLE, !.entities[i].target_entity_id = -1]

harvest_pathfind_to(state, i, goal_x, goal_y) ==
    [state EXCEPT !.entities[i] = pathfind_to(state, @, goal_x, goal_y)]

\* the nearest hive of the ant's owner, first in list order among equals; 0 for None
nearest_own_hive(state, i) ==
    Nearest({j \in DOMAIN state.entities :
                /\ state.entities[j].entity_type = HIVE
                /\ state.entities[j].player_id = state.entities[i].player_id},
            LAMBDA j : DistSq(state.entities[i], state.entities[j]),
            2000000000)

CorpseHasJelly(state, entity_id) ==
    /\ HasEntity(state, entity_id)
    /\ get_entity(state, entity_id).entity_type = CORPSE
    /\ get_entity(state, entity_id).jelly_value > 0

send_to_nearest_hive(state, i) ==
    LET h == nearest_own_hive(state, i)
    IN  IF h = 0 THEN go_idle(state, i)
        ELSE harvest_pathfind_to(state, i, state.entities[h].x, state.entities[h].y)

\* _try_extract once the corpse is known to be a corpse within range
extract(state, i, c) ==
    LET entity == state.entities[i]
        corpse == state.entities[c]
        amount == harvest_this_tick(HARVEST_RATE, state.tick)
        transfer == Min(Min(amount, ANT_CARRY_CAPACITY - entity.carrying), corpse.jelly_value)
        after == IF transfer > 0
                 THEN [state EXCEPT !.entities[i].carrying = @ + transfer,
                                    !.entities[c].jelly_value = @ - transfer]
                 ELSE state
    IN  IF \/ after.entities[i].carrying >= ANT_CARRY_CAPACITY
           \/ after.entities[c].jelly_value <= 0
        THEN send_to_nearest_hive(after, i)
        ELSE after

try_extract(state, i) ==
    LET entity == state.entities[i]
        c == EntityIndex(state.entities, entity.target_entity_id)
    IN  IF c = 0 THEN go_idle(state, i)
        ELSE IF state.entities[c].entity_type # CORPSE THEN go_idle(state, i)
        ELSE IF DistSq(entity, state.entities[c]) > HARVEST_RANGE_SQ
             THEN harvest_pathfind_to(state, i, state.entities[c].x, state.entities[c].y)
        ELSE extract(state, i, c)

\* _try_deposit from "# Deposit" on
deposit(state, i) ==
    LET entity == state.entities[i]
        after == [state EXCEPT
                    !.player_jelly = DictSet(@, entity.player_id,
                                       DictGet(@, entity.player_id, 0) + entity.carrying),
                    !.entities[i].carrying = 0]
    IN  IF CorpseHasJelly(after, entity.target_entity_id)
        THEN harvest_pathfind_to(after, i, get_entity(after, entity.target_entity_id).x,
                                 get_entity(after, entity.target_entity_id).y)
        ELSE go_idle(after, i)

try_deposit(state, i) ==
    LET h == nearest_own_hive(state, i)
    IN  IF h = 0 THEN go_idle(state, i)
        ELSE IF DistSq(state.entities[i], state.entities[h]) > HARVEST_RANGE_SQ
             THEN harvest_pathfind_to(state, i, state.entities[h].x, state.entities[h].y)
        ELSE deposit(state, i)

\* the body of the loop of process_harvesting
harvest_one(state, i) ==
    LET entity == state.entities[i]
    IN  IF \/ entity.state # HARVESTING
           \/ entity.entity_type # ANT
           \/ is_moving(entity) \/ entity.path # <<>>
        THEN state
        ELSE IF entity.carrying < ANT_CARRY_CAPACITY
                /\ CorpseHasJelly(state, entity.target_entity_id)
             THEN IF DistSq(entity, get_entity(state, entity.target_entity_id))
                        <= HARVEST_RANGE_SQ
                  THEN try_extract(state, i)
                  ELSE harvest_pathfind_to(state, i,
                            get_entity(state, entity.target_entity_id).x,
                            get_entity(state, entity.target_entity_id).y)
        ELSE IF entity.carrying > 0 THEN try_deposit(state, i)
        ELSE go_idle(state, i)

RECURSIVE harvest_from(_, _)
harvest_from(state, i) ==
    IF i > Len(state.entities) THEN state
    ELSE harvest_from(harvest_one(state, i), i + 1)

process_harvesting(state) == harvest_from(state, 1)

-----------------------------------------------------------------------------
(* combat.py: process_combat.                                              *)

ATTACK_RANGE_SQ == (ATTACK_RANGE * MILLI_TILES_PER_TILE) * (ATTACK_RANGE * MILLI_TILES_PER_TILE)
ATTACKABLE_TYPES == {ANT, QUEEN, HIVE, APHID, BEETLE, MANTIS}

\* _CORPSE_JELLY.get(entity_type, 0)
CORPSE_JELLY(entity_type) ==
    CASE entity_type = ANT -> ANT_CORPSE_JELLY
      [] entity_type = APHID -> APHID_JELLY
      [] entity_type = BEETLE -> BEETLE_JELLY
      [] entity_type = MANTIS -> MANTIS_JELLY
      [] OTHER -> 0

is_enemy(attacker, target) ==
    /\ target.entity_type \in ATTACKABLE_TYPES
    /\ target.player_id # attacker.player_id
    /\ ~(attacker.player_id = -1 /\ target.player_id = -1)

\* the index of the target the attacker at index a picks, 0 for None:
\* the nearest enemy within attack range, the smaller entity_id among equals
best_target_larger_id(entities, a) ==
    LET C == {j \in DOMAIN entities :
                /\ is_enemy(entities[a], entities[j])
                /\ DistSq(entities[a], entities[j]) <= ATTACK_RANGE_SQ}
        better(j, k) ==
            \/ DistSq(entities[a], entities[j]) < DistSq(entities[a], entities[k])
            \/ /\ DistSq(entities[a], entities[j]) = DistSq(entities[a], entities[k])
               /\ entities[j].entity_id >= entities[k].entity_id
    IN  IF C = {} THEN 0 ELSE CHOOSE j \in C : \A k \in C : better(j, k)

best_target(entities, a) ==
    LET C == {j \in DOMAIN entities :
                /\ is_enemy(entities[a], entities[j])
                /\ DistSq(entities[a], entities[j]) <= ATTACK_RANGE_SQ}
        better(j, k) ==
            \/ DistSq(entities[a], entities[j]) < DistSq(entities[a], entities[k])
            \/ /\ DistSq(entities[a], entities[j]) = DistSq(entities[a], entities[k])
               /\ \/ entities[j].entity_id < entities[k].entity_id
                  \/ entities[j].entity_id = entities[k].entity_id /\ j <= k
    IN  IF C = {} THEN 0 ELSE CHOOSE j \in C : \A k \in C : better(j, k)

\* whether the entity at index a strikes this tick
Strikes(state, a) ==
    /\ state.entities[a].damage > 0
    /\ damage_this_tick(state.entities[a].damage, state.tick) > 0

RECURSIVE DamageTo(_, _, _)
\* the damage the attackers from index a on deal to the entity with this id
DamageTo(state, entity_id, a) ==
    IF a > Len(state.entities) THEN 0
    ELSE DamageTo(state, entity_id, a + 1) +
         (IF /\ Strikes(state, a)
             /\ best_target(state.entities, a) # 0
             /\ state.entities[best_target(state.entities, a)].entity_id = entity_id
          THEN damage_this_tick(state.entities[a].damage, state.tick) ELSE 0)

auto_attack(state) ==
    [state EXCEPT !.entities =
        [i \in DOMAIN @ |->
            [@[i] EXCEPT
                !.state = IF ~Strikes(state, i) THEN @
                          ELSE IF best_target(state.entities, i) # 0 THEN ATTACKING
                          ELSE IF @ = ATTACKING THEN IDLE ELSE @,
                !.hp = IF EntityIndex(state.entities, state.entities[i].entity_id) = i
                       THEN @ - DamageTo(state, state.entities[i].entity_id, 1)
                       ELSE @]]]

\* the corpses of the dead, created in list order
RECURSIVE create_corpses(_, _)
create_corpses(state, dead) ==
    IF dead = <<>> THEN state
    ELSE create_corpses(
            IF CORPSE_JELLY(Head(dead).entity_type) > 0
            THEN create_entity(state, -1, Head(dead).x, Head(dead).y, CORPSE,
                    [hp |-> CORPSE_DECAY_TICKS, max_hp |-> CORPSE_DECAY_TICKS,
                     jelly_value |-> CORPSE_JELLY(Head(dead).entity_type),
                     speed |-> 0, damage |-> 0])
            ELSE state,
            Tail(dead))

IsDead(e) == e.hp <= 0 /\ e.entity_type \notin {CORPSE, HIVE_SITE}

process_deaths_no_corpse(state) ==
    [state EXCEPT !.entities = SelectSeq(@, LAMBDA e : ~IsDead(e))]

process_deaths(state) ==
    create_corpses([state EXCEPT !.entities = SelectSeq(@, LAMBDA e : ~IsDead(e))],
                   SelectSeq(state.entities, IsDead))

decay_corpses(state) ==
    [state EXCEPT !.entities =
        SelectSeq([i \in DOMAIN @ |->
                      IF @[i].entity_type = CORPSE THEN [@[i] EXCEPT !.hp = @ - 1] ELSE @[i]],
                  LAMBDA e : ~(e.entity_type = CORPSE /\ e.hp <= 0))]

process_combat_decay_last(state) == decay_corpses(process_deaths(auto_attack(state)))

process_combat(state) == process_deaths(auto_attack(decay_corpses(state)))

-----------------------------------------------------------------------------
(* hive.py: process_hive_mechanics.                                        *)

RECURSIVE income_from(_, _, _)
income_from(state, income, i) ==
    IF i > Len(state.entities) THEN state
    ELSE income_from(
            IF state.entities[i].entity_type = HIVE /\ state.entities[i].player_id >= 0
            THEN [state EXCEPT !.player_jelly =
                    DictSet(@, state.entities[i].player_id,
                            DictGet(@, state.entities[i].player_id, 0) + income)]
            ELSE state,
            income, i + 1)

apply_passive_income(state) ==
    IF income_this_tick(HIVE_PASSIVE_INCOME, state.tick) <= 0 THEN state
    ELSE income_from(state, income_this_tick(HIVE_PASSIVE_INCOME, state.tick), 1)

SPAWN_DIRS ==
    << <<0, -MILLI_TILES_PER_TILE>>, <<MILLI_TILES_PER_TILE, -MILLI_TILES_PER_TILE>>,
       <<MILLI_TILES_PER_TILE, 0>>, <<MILLI_TILES_PER_TILE, MILLI_TILES_PER_TILE>>,
       <<0, MILLI_TILES_PER_TILE>>, <<-MILLI_TILES_PER_TILE, MILLI_TILES_PER_TILE>>,
       <<-MILLI_TILES_PER_TILE, 0>>, <<-MILLI_TILES_PER_TILE, -MILLI_TILES_PER_TILE>> >>

\* _pick_spawn_pos with start = the value next_random(8) returned
pick_spawn_pos(tilemap, hx, hy, start) ==
    LET ok == {k \in 0..7 :
                 is_walkable(tilemap,
                    (hx + SPAWN_DIRS[((start + k) % 8) + 1][1]) \div MILLI_TILES_PER_TILE,
                    (hy + SPAWN_DIRS[((start + k) % 8) + 1][2]) \div MILLI_TILES_PER_TILE)}
        first == CHOOSE k \in ok : \A o \in ok : k <= o
    IN  IF ok = {} THEN <<hx, hy>>
        ELSE <<hx + SPAWN_DIRS[((start + first) % 8) + 1][1],
               hy + SPAWN_DIRS[((start + first) % 8) + 1][2]>>

\* for player_id, hx, hy in spawns: spawns holds the hives whose cooldown ran out
RECURSIVE spawn_ants(_, _)
spawn_ants(state, spawns) ==
    IF spawns = <<>> THEN state
    ELSE LET pos == pick_spawn_pos(state.tilemap, Head(spawns).x, Head(spawns).y,
                                   next_random(state, 8))
         IN  spawn_ants(
                create_entity(next_random_state(state), Head(spawns).player_id,
                    pos[1], pos[2], ANT,
                    [speed |-> ANT_SPEED, hp |-> ANT_HP, max_hp |-> ANT_HP,
                     damage |-> ANT_DAMAGE, jelly_value |-> ANT_CORPSE_JELLY,
                     sight |-> ANT_SIGHT]),
                Tail(spawns))

tick_spawn_cooldowns_early(state) ==
    LET ticked == [i \in DOMAIN state.entities |->
                      IF state.entities[i].entity_type = HIVE /\ state.entities[i].cooldown > 0
                      THEN [state.entities[i] EXCEPT !.cooldown = @ - 1]
                      ELSE state.entities[i]]
        spawns == SelectSeq(state.entities,
                            LAMBDA e : e.entity_type = HIVE /\ e.cooldown = 2)
    IN  spawn_ants([state EXCEPT !.entities = ticked], spawns)

tick_spawn_cooldowns(state) ==
    LET ticked == [i \in DOMAIN state.entities |->
                      IF state.entities[i].entity_type = HIVE /\ state.entities[i].cooldown > 0
                      THEN [state.entities[i] EXCEPT !.cooldown = @ - 1]
                      ELSE state.entities[i]]
        spawns == SelectSeq(state.entities,
                            LAMBDA e : e.entity_type = HIVE /\ e.cooldown = 1)
    IN  spawn_ants([state EXCEPT !.entities = ticked], spawns)

\* the index of the first hive site within founding range of the queen, 0 for none
site_in_range(entities, queen) ==
    LET C == {j \in DOMAIN entities :
                /\ entities[j].entity_type = HIVE_SITE
                /\ DistSq(queen, entities[j]) <= FOUND_RANGE_SQ}
    IN  IF C = {} THEN 0 ELSE CHOOSE j \in C : \A k \in C : j <= k

Founds(entities, queen) ==
    /\ queen.entity_type = QUEEN /\ queen.state = FOUNDING
    /\ site_in_range(entities, queen) # 0

\* for _site_id, player_id, sx, sy in sites_to_convert, one entry per founding queen
RECURSIVE found_hives(_, _, _)
found_hives(state, before, queens) ==
    IF queens = <<>> THEN state
    ELSE LET site == before[site_in_range(before, Head(queens))]
         IN  found_hives(
                create_entity(state, Head(queens).player_id, site.x, site.y, HIVE,
                    [speed |-> 0, hp |-> HIVE_HP, max_hp |-> HIVE_HP, damage |-> 0,
                     sight |-> HIVE_SIGHT]),
                before, Tail(queens))

check_founding(state) ==
    LET before == state.entities
        queens == SelectSeq(before, LAMBDA q : Founds(before, q))
        remove == {queens[k].entity_id : k \in DOMAIN queens}
                  \cup {before[site_in_range(before, queens[k])].entity_id : k \in DOMAIN queens}
    IN  IF queens = <<>> THEN state
        ELSE found_hives([state EXCEPT !.entities = RemoveIds(@, remove)], before, queens)

\* player_hives.get(player_id, 0)
player_hives(state, player_id) ==
    Cardinality({i \in DOMAIN state.entities :
                    /\ state.entities[i].entity_type = HIVE
                    /\ state.entities[i].player_id = player_id})

\* _check_win_condition without the return when the game is over
check_win_condition_again(state) ==
    LET players == DOMAIN state.player_jelly
        eliminated == {p \in players : player_hives(state, p) = 0}
        alive == players \ eliminated
    IN  IF eliminated # {} /\ Cardinality(alive) = 1
        THEN [state EXCEPT !.game_over = TRUE, !.winner = CHOOSE p \in alive : TRUE]
        ELSE IF eliminated # {} /\ Cardinality(alive) = 0
             THEN [state EXCEPT !.game_over = TRUE, !.winner = -1]
        ELSE state

check_win_condition(state) ==
    LET players == DOMAIN state.player_jelly
        eliminated == {p \in players : player_hives(state, p) = 0}
        alive == players \ eliminated
    IN  IF state.game_over THEN state
        ELSE IF eliminated # {} /\ Cardinality(alive) = 1
             THEN [state EXCEPT !.game_over = TRUE, !.winner = CHOOSE p \in alive : TRUE]
        ELSE IF eliminated # {} /\ Cardinality(alive) = 0
             THEN [state EXCEPT !.game_over = TRUE, !.winner = -1]
        ELSE state

process_hive_mechanics(state) ==
    check_win_condition(check_founding(tick_spawn_cooldowns(apply_passive_income(state))))

-----------------------------------------------------------------------------
(* wildlife.py: process_wildlife.                                          *)

WILDLIFE_AGGRO_RANGE_SQ ==
    (WILDLIFE_AGGRO_RANGE * MILLI_TILES_PER_TILE) * (WILDLIFE_AGGRO_RANGE * MILLI_TILES_PER_TILE)
HIVE_EXCLUSION_SQ == WILDLIFE_HIVE_EXCLUSION * WILDLIFE_HIVE_EXCLUSION
AGGRESSIVE_TYPES == {BEETLE, MANTIS}

\* _WILDLIFE_STATS[etype], with the sight=0 _try_spawn_one passes
WILDLIFE_STATS(etype) ==
    CASE etype = APHID ->
            [speed |-> 0, hp |-> APHID_HP, max_hp |-> APHID_HP, damage |-> APHID_DAMAGE,
             jelly_value |-> APHID_JELLY, sight |-> 0]
      [] etype = BEETLE ->
            [speed |-> BEETLE_SPEED, hp |-> BEETLE_HP, max_hp |-> BEETLE_HP,
             damage |-> BEETLE_DAMAGE, jelly_value |-> BEETLE_JELLY, sight |-> 0]
      [] etype = MANTIS ->
            [speed |-> MANTIS_SPEED, hp |-> MANTIS_HP, max_hp |-> MANTIS_HP,
             damage |-> MANTIS_DAMAGE, jelly_value |-> MANTIS_JELLY, sight |-> 0]

\* the body of the loop of _update_wildlife_ai for the entity at index i
wildlife_ai_one(state, i) ==
    LET entity == state.entities[i]
        best == Nearest({j \in DOMAIN state.entities : state.entities[j].player_id >= 0},
                        LAMBDA j : DistSq(entity, state.entities[j]),
                        WILDLIFE_AGGRO_RANGE_SQ + 1)
        tile_path == find_path(state.tilemap,
                        entity.x \div MILLI_TILES_PER_TILE, entity.y \div MILLI_TILES_PER_TILE,
                        state.entities[best].x \div MILLI_TILES_PER_TILE,
                        state.entities[best].y \div MILLI_TILES_PER_TILE)
    IN  IF \/ entity.player_id # -1
           \/ entity.entity_type \notin AGGRESSIVE_TYPES
           \/ entity.speed <= 0
           \/ entity.state = ATTACKING
           \/ is_moving(entity) \/ entity.path # <<>>
           \/ best = 0
        THEN entity
        ELSE IF tile_path # <<>>
             THEN [entity EXCEPT !.path = MilliPath(tile_path),
                                 !.target_x = TileCentre(tile_path[Len(tile_path)][1]),
                                 !.target_y = TileCentre(tile_path[Len(tile_path)][2])]
             ELSE [entity EXCEPT !.target_x = state.entities[best].x,
                                 !.target_y = state.entities[best].y]

update_wildlife_ai(state) ==
    [state EXCEPT !.entities = [i \in DOMAIN @ |-> wildlife_ai_one(state, i)]]

\* the attempts of _try_spawn_one, each drawing a tile with two next_random calls
RECURSIVE try_spawn_attempts(_, _, _)
try_spawn_attempts(state, etype, attempts) ==
    IF attempts = 0 THEN state
    ELSE LET s1 == next_random_state(state)
             s2 == next_random_state(s1)
             tx == next_random(state, state.tilemap.width)
             ty == next_random(s1, state.tilemap.height)
             too_close ==
                \E j \in DOMAIN state.entities :
                    /\ state.entities[j].entity_type = HIVE
                    /\ (tx - state.entities[j].x \div MILLI_TILES_PER_TILE)
                         * (tx - state.entities[j].x \div MILLI_TILES_PER_TILE)
                       + (ty - state.entities[j].y \div MILLI_TILES_PER_TILE)
                         * (ty - state.entities[j].y \div MILLI_TILES_PER_TILE)
                       < HIVE_EXCLUSION_SQ
         IN  IF ~is_walkable(state.tilemap, tx, ty) \/ too_close
             THEN try_spawn_attempts(s2, etype, attempts - 1)
             ELSE create_entity(s2, -1, TileCentre(tx), TileCentre(ty), etype,
                                WILDLIFE_STATS(etype))

try_spawn_one(state, etype) == try_spawn_attempts(state, etype, 10)

CountType(state, etype) ==
    Cardinality({i \in DOMAIN state.entities : state.entities[i].entity_type = etype})

spawn_wildlife(state) ==
    LET roll == next_random(state, 100)
        rolled == next_random_state(state)
        etype == IF roll < 50 THEN APHID ELSE IF roll < 80 THEN BEETLE ELSE MANTIS
        cap == IF roll < 50 THEN WILDLIFE_MAX_APHIDS
               ELSE IF roll < 80 THEN WILDLIFE_MAX_BEETLES ELSE WILDLIFE_MAX_MANTIS
    IN  IF state.tick % WILDLIFE_SPAWN_INTERVAL # 0 THEN state
        ELSE IF CountType(state, etype) >= cap THEN rolled
        ELSE try_spawn_one(rolled, etype)

process_wildlife(state) == spawn_wildlife(update_wildlife_ai(state))

-----------------------------------------------------------------------------
(* visibility.py: VisibilityMap.update.  state.visibility[p] is the grid   *)
(* of player p, row-major like the tiles.                                  *)

UNEXPLORED == 0
FOG == 1
VISIBLE == 2

\* the tile with this index of the grid is within sight of the entity
Reveals(entity, width, i) ==
    LET tx == entity.x \div MILLI_TILES_PER_TILE
        ty == entity.y \div MILLI_TILES_PER_TILE
        cx == (i - 1) % width
        cy == (i - 1) \div width
    IN  (cx - tx) * (cx - tx) + (cy - ty) * (cy - ty) <= entity.sight * entity.sight

\* VisibilityMap.update that forgets the tiles no longer in sight
update_grid_forgetting(grid, width, entities, player_id) ==
    [i \in DOMAIN grid |->
        IF \E k \in DOMAIN entities :
              /\ entities[k].player_id = player_id
              /\ entities[k].sight > 0
              /\ Reveals(entities[k], width, i)
        THEN VISIBLE
        ELSE IF grid[i] = VISIBLE THEN UNEXPLORED ELSE grid[i]]

\* VisibilityMap.update on the grid of player_id
update_grid(grid, width, entities, player_id) ==
    [i \in DOMAIN grid |->
        IF \E k \in DOMAIN entities :
              /\ entities[k].player_id = player_id
              /\ entities[k].sight > 0
              /\ Reveals(entities[k], width, i)
        THEN VISIBLE
        ELSE IF grid[i] = VISIBLE THEN FOG ELSE grid[i]]

visibility_update(visibility, width, entities, player_id) ==
    IF player_id \notin DOMAIN visibility THEN visibility
    ELSE [visibility EXCEPT ![player_id] = update_grid(@, width, entities, player_id)]

-----------------------------------------------------------------------------
(* tick.py: advance_tick.                                                  *)

update_visibility(state) ==
    [state EXCEPT !.visibility =
        visibility_update(visibility_update(@, state.tilemap.width, state.entities, 0),
                          state.tilemap.width, state.entities, 1)]

advance_tick(state, commands) ==
    [update_visibility(
        process_hive_mechanics(
        process_combat(
        process_harvesting(
        apply_separation(
        update_movement(
        check_harvest_aggro(
        check_aggro(
        process_wildlife(
        process_commands(state, commands))))))))))
     EXCEPT !.tick = @ + 1]

-----------------------------------------------------------------------------
(* SpecStop: a unit is given one order (MOVE, ATTACK, HARVEST, FOUND_HIVE) *)
(* on tick 0, a STOP on some later tick and no command after that.  Each   *)
(* step is one advance_tick call.  The unit is the only entity that moves. *)

\* ids: 0 hive of 0 | 1 hive of 1 | 2 the unit of player 0 | 3 corpse or site
OrderScene(order, tile) ==
    LET hives == add_hive(add_hive(NewGameState(0, 42, open_map(12, 6)), 0, <<2, 2>>),
                          1, <<9, 3>>)
    IN  CASE order = FOUND_HIVE -> add_hive_site(add_queen(hives, 0, tile), <<6, 4>>)
          [] order = HARVEST -> add_corpse(add_ant(hives, 0, tile), <<8, 1>>, 12)
          [] OTHER -> add_ant(hives, 0, tile)

\* the order for unit 2: a MOVE to tile (10, 4), an ATTACK on hive 1, a
\* HARVEST of corpse 3, a FOUND_HIVE on site 3
OrderCommand(order, tick) ==
    CASE order = MOVE -> Command(MOVE, 0, tick, <<2>>, 10500, 4500, 0)
      [] order = ATTACK -> Command(ATTACK, 0, tick, <<2>>, 0, 0, 1)
      [] order = HARVEST -> Command(HARVEST, 0, tick, <<2>>, 0, 0, 3)
      [] order = FOUND_HIVE -> Command(FOUND_HIVE, 0, tick, <<2>>, 0, 0, 3)

Orders == {MOVE, ATTACK, HARVEST, FOUND_HIVE}
UnitTiles == { <<3, 2>>, <<4, 4>> }

InitStop ==
    /\ InitNet /\ InitCodecIdle
    /\ calc = <<>>
    /\ \E order \in Orders, tile \in UnitTiles :
          /\ sim = OrderScene(order, tile)
          /\ sim_hist = [order |-> order, issued |-> FALSE, stopped |-> FALSE,
                         x |-> 0, y |-> 0]

\* advance_tick with the order
IssueOrder ==
    /\ sim_hist # <<>> /\ ~sim_hist.issued
    /\ sim' = advance_tick(sim, <<OrderCommand(sim_hist.order, sim.tick)>>)
    /\ sim_hist' = [sim_hist EXCEPT !.issued = TRUE]
    /\ UNCHANGED <<netVars, codecVars, calc>>

\* advance_tick without commands
TickStop ==
    /\ sim_hist # <<>> /\ sim_hist.issued
    /\ sim.tick < MaxTickStop
    /\ sim' = advance_tick(sim, <<>>)
    /\ UNCHANGED <<netVars, codecVars, calc, sim_hist>>

\* advance_tick with a STOP for the unit; the history keeps where the unit
\* stands at the end of this tick
IssueStop ==
    /\ sim_hist # <<>> /\ sim_hist.issued /\ ~sim_hist.stopped
    /\ sim.tick < MaxTickStop
    /\ HasEntity(sim, 2)
    /\ \E after \in {advance_tick(sim, <<Command(STOP, 0, sim.tick, <<2>>, 0, 0, 0)>>)} :
          /\ sim' = after
          /\ sim_hist' = [sim_hist EXCEPT
                !.stopped = TRUE,
                !.x = IF HasEntity(after, 2) THEN get_entity(after, 2).x ELSE 0,
                !.y = IF HasEntity(after, 2) THEN get_entity(after, 2).y ELSE 0]
    /\ UNCHANGED <<netVars, codecVars, calc>>

NextStop == IssueOrder \/ TickStop \/ IssueStop
SpecStop == InitStop /\ [][NextStop]_vars

\* the unit, if it is still there, stands where it stood at the end of the
\* STOP tick, with no path and its target at its position
StaysStopped ==
    HasEntity(sim, 2) =>
        /\ get_entity(sim, 2).x = sim_hist.x /\ get_entity(sim, 2).y = sim_hist.y
        /\ get_entity(sim, 2).path = <<>>
        /\ ~is_moving(get_entity(sim, 2))

\* C13: after a STOP is applied to an owned unit that was executing MOVE,
\* ATTACK, HARVEST or FOUND_HIVE, with no further command and no entity
\* pushing it, the unit's position at the end of every later tick is its
\* position at the end of the STOP tick, its path empty, its target its position.
C13_StopCancels == (sim_hist # <<>> /\ sim_hist.stopped) => StaysStopped

\* C13 for the orders other than HARVEST
C13_StopCancelsButHarvest ==
    (sim_hist # <<>> /\ sim_hist.stopped /\ sim_hist.order # HARVEST) => StaysStopped

\* an ant stopped on its way to a corpse is walking again
C13_HarvesterWalksOn ==
    /\ sim_hist # <<>> /\ sim_hist.stopped /\ sim_hist.order = HARVEST
    /\ HasEntity(sim, 2) /\ get_entity(sim, 2).carrying = 0
    /\ get_entity(sim, 2).x # sim_hist.x
    /\ get_entity(sim, 2).path # <<>>

\* a unit stopped on its way under each of the other orders has stood still since
C13_OthersStand ==
    /\ sim_hist # <<>> /\ sim_hist.stopped /\ sim_hist.order = ATTACK
    /\ sim.tick = MaxTickStop
    /\ HasEntity(sim, 2) /\ get_entity(sim, 2).target_entity_id = 1
    /\ get_entity(sim, 2).x # 3500 /\ get_entity(sim, 2).x # 4500

-----------------------------------------------------------------------------
(* SpecSupersede: a unit is given HARVEST, FOUND_HIVE or ATTACK on tick 0, *)
(* a MOVE on a later tick and no command after that.                       *)

\* ids as in OrderScene, 3 being the corpse, the site, or an aphid that
\* stands beside the way of the MOVE
SupersedeScene(order) ==
    LET hives == add_hive(add_hive(NewGameState(0, 42, open_map(12, 6)), 0, <<2, 2>>),
                          1, <<9, 3>>)
    IN  CASE order = FOUND_HIVE -> add_hive_site(add_queen(hives, 0, <<4, 4>>), <<6, 4>>)
          [] order = HARVEST -> add_corpse(add_ant(hives, 0, <<3, 2>>), <<8, 1>>, 12)
          [] order = ATTACK -> add_aphid(add_ant(hives, 0, <<1, 1>>), <<6, 4>>)

\* the tile the MOVE sends the unit to
SupersedeGoal(order) ==
    CASE order = FOUND_HIVE -> <<7, 4>>
      [] order = HARVEST -> <<3, 4>>
      [] order = ATTACK -> <<5, 2>>

InitSupersede ==
    /\ InitNet /\ InitCodecIdle
    /\ calc = <<>>
    /\ \E order \in {HARVEST, FOUND_HIVE, ATTACK} :
          /\ sim = SupersedeScene(order)
          /\ sim_hist = [order |-> order, issued |-> FALSE, moved |-> FALSE,
                         carrying |-> 0, next_entity_id |-> 0]

TickSupersede ==
    /\ sim_hist # <<>> /\ sim_hist.issued
    /\ sim.tick < MaxTickSupersede
    /\ sim' = advance_tick(sim, <<>>)
    /\ UNCHANGED <<netVars, codecVars, calc, sim_hist>>

\* advance_tick with a MOVE for the unit; the history keeps what the unit
\* carried and the next entity id when the MOVE was applied
IssueMove ==
    /\ sim_hist # <<>> /\ sim_hist.issued /\ ~sim_hist.moved
    /\ sim.tick <= MaxMoveTick
    /\ HasEntity(sim, 2)
    /\ sim' = advance_tick(sim,
                 <<Command(MOVE, 0, sim.tick, <<2>>,
                           TileCentre(SupersedeGoal(sim_hist.order)[1]),
                           TileCentre(SupersedeGoal(sim_hist.order)[2]), 0)>>)
    /\ sim_hist' = [sim_hist EXCEPT !.moved = TRUE,
                                    !.carrying = get_entity(sim, 2).carrying,
                                    !.next_entity_id = sim.next_entity_id]
    /\ UNCHANGED <<netVars, codecVars, calc>>

NextSupersede == IssueOrder \/ TickSupersede \/ IssueMove
SpecSupersede == InitSupersede /\ [][NextSupersede]_vars

Moved == sim_hist # <<>> /\ sim_hist.moved

\* C14: once a MOVE is applied to a unit that earlier received HARVEST,
\* FOUND_HIVE or ATTACK, the earlier order has no effect on any later tick:
\* the unit is still there and bound for the goal of the MOVE (not re-pathed
\* to a corpse, a hive or an enemy), it carries what it carried (no extraction,
\* no deposit) and no entity has been created (no hive founded).
C14_MoveSupersedes ==
    Moved =>
        /\ HasEntity(sim, 2)
        /\ get_entity(sim, 2).target_x = TileCentre(SupersedeGoal(sim_hist.order)[1])
        /\ get_entity(sim, 2).target_y = TileCentre(SupersedeGoal(sim_hist.order)[2])
        /\ get_entity(sim, 2).carrying = sim_hist.carrying
        /\ sim.next_entity_id = sim_hist.next_entity_id

\* the ant sent away from its harvest has arrived, turned back and extracted
C14_AntHarvestsAgain ==
    /\ Moved /\ sim_hist.order = HARVEST
    /\ HasEntity(sim, 2) /\ get_entity(sim, 2).carrying > sim_hist.carrying

\* the queen sent past the site has founded the hive
C14_QueenFounds ==
    /\ Moved /\ sim_hist.order = FOUND_HIVE
    /\ ~HasEntity(sim, 2) /\ ~HasEntity(sim, 3)
    /\ HasEntity(sim, 4) /\ get_entity(sim, 4).entity_type = HIVE

\* the attacker sent elsewhere has turned to the aphid beside its way
C14_AttackerRedirected ==
    /\ Moved /\ sim_hist.order = ATTACK
    /\ HasEntity(sim, 2) /\ get_entity(sim, 2).target_entity_id = 3

-----------------------------------------------------------------------------
(* SpecIdent: a scene in which every operation that creates or removes     *)
(* entities happens: spawn, merge, morph, founding, death with a corpse,   *)
(* corpse decay and wildlife.                                              *)

set_hp(state, entity_id, hp) ==
    [state EXCEPT !.entities[EntityIndex(state.entities, entity_id)].hp = hp]

\* ids: 0 hive of player 0 | 1..6 its ants around the hive | 7 its ant that
\* no command names | 8 a wounded ant of player 1 beside it | 9 queen of
\* player 0 | 10 hive site beside the queen | 11 hive of player 1 | 12 a
\* corpse about to decay.  The right
\* end of the map is outside the hive exclusion, wildlife can spawn there.
IdentAnts == << <<1, 1>>, <<2, 1>>, <<3, 1>>, <<1, 2>>, <<3, 2>>, <<1, 3>>, <<5, 2>> >>

RECURSIVE add_ants(_, _, _)
add_ants(state, player, tiles) ==
    IF tiles = <<>> THEN state
    ELSE add_ants(add_ant(state, player, Head(tiles)), player, Tail(tiles))

IdentScene(seed) ==
    LET s0 == add_hive(NewGameState(seed[1], seed[2], open_map(24, 5)), 0, <<2, 2>>)
        s1 == set_hp(add_ant(add_ants(s0, 0, IdentAnts), 1, <<4, 2>>), 8, 2)
        s2 == add_hive_site(add_queen(s1, 0, <<6, 2>>), <<6, 3>>)
        s3 == add_hive(s2, 1, <<8, 2>>)
    IN  set_hp(add_corpse(s3, <<3, 3>>, 5), 12, 1)

IdentSeeds == { <<0, 42>>, <<0, 7>> }
IdentKinds == {SPAWN_ANT, MERGE_QUEEN, MORPH_SPITTER, FOUND_HIVE}

IdentCommand(kind, tick) ==
    CASE kind = SPAWN_ANT -> Command(SPAWN_ANT, 0, tick, <<>>, 0, 0, 0)
      [] kind = MERGE_QUEEN -> Command(MERGE_QUEEN, 0, tick, <<1, 2, 3, 4, 5>>, 0, 0, 0)
      [] kind = MORPH_SPITTER -> Command(MORPH_SPITTER, 0, tick, <<6>>, 0, 0, 0)
      [] kind = FOUND_HIVE -> Command(FOUND_HIVE, 0, tick, <<9>>, 0, 0, 10)

LiveIds(state) == {state.entities[i].entity_id : i \in DOMAIN state.entities}

InitIdent ==
    /\ InitNet /\ InitCodecIdle
    /\ calc = <<>>
    /\ \E seed \in IdentSeeds :
          /\ sim = IdentScene(seed)
          /\ sim_hist = [issued |-> {}, gone |-> {}, next_entity_id |-> 0]

\* the history keeps the ids that were live and are not any more, and
\* next_entity_id before the step
IdentHist(after) ==
    [sim_hist EXCEPT !.gone = @ \cup (LiveIds(sim) \ LiveIds(after)),
                     !.next_entity_id = sim.next_entity_id]

TickIdent ==
    /\ sim_hist # <<>>
    /\ sim.tick < MaxTickIdent
    /\ sim' = advance_tick(sim, <<>>)
    /\ sim_hist' = IdentHist(sim')
    /\ UNCHANGED <<netVars, codecVars, calc>>

IssueIdent ==
    /\ sim_hist # <<>>
    /\ sim.tick <= MaxCmdTick
    /\ \E kind \in IdentKinds \ sim_hist.issued :
          /\ sim' = advance_tick(sim, <<IdentCommand(kind, sim.tick)>>)
          /\ sim_hist' = [IdentHist(sim') EXCEPT !.issued = @ \cup {kind}]
    /\ UNCHANGED <<netVars, codecVars, calc>>

NextIdent == TickIdent \/ IssueIdent
SpecIdent == InitIdent /\ [][NextIdent]_vars

\* C15: whatever the pipeline created or removed, next_entity_id has not
\* decreased, every live id is below it, state.entities is in strictly
\* ascending id order (so no two live entities share an id) and no id of a
\* removed entity is live again.
C15_EntityIdentity ==
    sim_hist # <<>> =>
        /\ sim.next_entity_id >= sim_hist.next_entity_id
        /\ \A i \in DOMAIN sim.entities : sim.entities[i].entity_id < sim.next_entity_id
        /\ \A i, j \in DOMAIN sim.entities :
              i < j => sim.entities[i].entity_id < sim.entities[j].entity_id
        /\ LiveIds(sim) \cap sim_hist.gone = {}

CreatedOfType(etype) ==
    \E i \in DOMAIN sim.entities :
        /\ sim.entities[i].entity_type = etype
        /\ sim.entities[i].entity_id > 12

\* entities were removed by merge, death and decay, and a queen, a corpse and
\* a spawned ant were created after that
C15_Witness ==
    /\ sim_hist # <<>>
    /\ {1, 8, 12} \subseteq sim_hist.gone
    /\ CreatedOfType(QUEEN) /\ CreatedOfType(CORPSE) /\ CreatedOfType(ANT)

C15_Founded == sim_hist # <<>> /\ {9, 10} \subseteq sim_hist.gone /\ CreatedOfType(HIVE)
C15_Morphed == sim_hist # <<>> /\ 6 \in sim_hist.gone /\ CreatedOfType(SPITTER)
C15_Wildlife ==
    sim_hist # <<>> /\ (CreatedOfType(APHID) \/ CreatedOfType(BEETLE) \/ CreatedOfType(MANTIS))

-----------------------------------------------------------------------------
(* SpecVis: VisibilityMap.update called with arbitrary entity lists on a   *)
(* 3x2 map for two players.                                                *)

VisSize == [width |-> 3, height |-> 2]

\* VisibilityMap.__init__: one grid of UNEXPLORED per player
VisibilityMap(width, height) == [p \in 0..1 |-> [i \in 1..(width * height) |-> UNEXPLORED]]

\* the entities of the lists: on a corner of the map or on the opposite corner
VisPositions == { <<500, 500>>, <<2500, 1500>> }
VisEntities ==
    [player_id : {0, 1}, x : {q[1] : q \in VisPositions}, y : {q[2] : q \in VisPositions},
     sight : 0..MaxSight]
\* update reads the list as a set: one list for every multiset of entities
VisOrder(e) == e.player_id * 100 + (e.x \div MILLI_TILES_PER_TILE) * 10 + e.sight
VisEntityLists ==
    UNION { {l \in [1..n -> {e \in VisEntities : <<e.x, e.y>> \in VisPositions}] :
                \A i \in 1..(n - 1) : VisOrder(l[i]) <= VisOrder(l[i + 1])} :
            n \in 0..MaxVisEntities }

InitVis ==
    /\ InitNet /\ InitCodecIdle
    /\ calc = <<>>
    /\ sim = VisibilityMap(VisSize.width, VisSize.height)
    /\ sim_hist = [player_id |-> -1, transitions |-> {}]

\* VisibilityMap.update(entities, player_id); the history keeps the player and
\* the changes of tiles the call made
Update ==
    /\ \E entities \in VisEntityLists, player_id \in -1..2 :
          /\ sim' = visibility_update(sim, VisSize.width, entities, player_id)
          /\ sim_hist' = [player_id |-> player_id,
                          transitions |-> {<<sim[p][i], sim'[p][i]>> :
                                              p \in DOMAIN sim, i \in 1..(VisSize.width * VisSize.height)}
                                          \ {<<v, v>> : v \in {UNEXPLORED, FOG, VISIBLE}}]
    /\ UNCHANGED <<netVars, codecVars, calc>>

NextVis == Update
SpecVis == InitVis /\ [][NextVis]_vars

VisTransitions == { <<UNEXPLORED, VISIBLE>>, <<VISIBLE, FOG>>, <<FOG, VISIBLE>> }

VisStep ==
    \A p \in DOMAIN sim :
        /\ \A i \in DOMAIN sim[p] :
              sim'[p][i] # sim[p][i] => <<sim[p][i], sim'[p][i]>> \in VisTransitions
        /\ p # sim_hist'.player_id => sim'[p] = sim[p]

\* C17: an update changes a tile only from UNEXPLORED to VISIBLE, from VISIBLE
\* to FOG or from FOG to VISIBLE (never back to UNEXPLORED), and it changes
\* the grid of the player it was called for only.
C17_VisibilityMonotone == [][VisStep]_vars

\* one update of player 0 has sent tiles it saw to FOG and brought tiles out
\* of FOG, while player 1 keeps the tiles it has seen
C17_Witness ==
    /\ sim_hist.player_id = 0
    /\ {<<VISIBLE, FOG>>, <<FOG, VISIBLE>>} \subseteq sim_hist.transitions
    /\ \E i \in DOMAIN sim[1] : sim[1][i] # UNEXPLORED

-----------------------------------------------------------------------------
(* SpecWin: two damaged hives under attack, and a queen of player 1 beside *)
(* a hive site.                                                            *)

\* ids: 0 hive of player 0 | 1 ant of player 1 beside it | 2 ant of player 0
\* beside the place of the other hive | 3 queen of player 1 | 4 hive site
\* beside the queen | 5 hive of player 1, if hp1 > 0
WinScene(hp0, hp1) ==
    LET s0 == set_hp(add_hive(NewGameState(0, 42, open_map(12, 5)), 0, <<2, 2>>), 0, hp0)
        s1 == add_ant(add_ant(s0, 1, <<3, 2>>), 0, <<7, 2>>)
        s2 == add_hive_site(add_queen(s1, 1, <<10, 1>>), <<10, 2>>)
    IN  IF hp1 = 0 THEN s2 ELSE set_hp(add_hive(s2, 1, <<8, 2>>), 5, hp1)

HiveHp0 == {1, 2, 4}
HiveHp1 == {0, 1, 2, 4}

InitWin ==
    /\ InitNet /\ InitCodecIdle
    /\ calc = <<>>
    /\ \E hp0 \in HiveHp0, hp1 \in HiveHp1 : sim = WinScene(hp0, hp1)
    /\ sim_hist = [founding |-> FALSE]

TickWin ==
    /\ sim_hist # <<>>
    /\ sim.tick < MaxTickWin
    /\ sim' = advance_tick(sim, <<>>)
    /\ UNCHANGED <<netVars, codecVars, calc, sim_hist>>

\* advance_tick with FOUND_HIVE for the queen of player 1
IssueFound ==
    /\ sim_hist # <<>> /\ ~sim_hist.founding
    /\ sim.tick <= MaxFoundTick
    /\ sim' = advance_tick(sim, <<Command(FOUND_HIVE, 1, sim.tick, <<3>>, 0, 0, 4)>>)
    /\ sim_hist' = [sim_hist EXCEPT !.founding = TRUE]
    /\ UNCHANGED <<netVars, codecVars, calc>>

NextWin == TickWin \/ IssueFound
SpecWin == InitWin /\ [][NextWin]_vars

\* the entities of type HIVE of the player (a HIVE_SITE is none)
HivesOf(state, p) ==
    Cardinality({i \in DOMAIN state.entities :
                    state.entities[i].entity_type = HIVE /\ state.entities[i].player_id = p})

\* the entities after a tick are those its win check saw
WinStep ==
    LET none == {p \in 0..1 : HivesOf(sim', p) = 0}
    IN  IF sim.game_over
        THEN sim'.game_over /\ sim'.winner = sim.winner
        ELSE IF none = {} THEN ~sim'.game_over
        ELSE /\ sim'.game_over
             /\ sim'.winner = (IF none = {0, 1} THEN -1 ELSE CHOOSE p \in 0..1 : p \notin none)

\* C18: the game is over from the first tick whose win check finds a player
\* without a hive; the winner is the player that has one, or -1 when neither
\* has; while both have a hive the game is not over; afterwards game_over and
\* winner do not change.
C18_WinDetermination == [][WinStep]_vars

\* player 1 has won and has lost its own hive since
C18_Witness ==
    /\ sim_hist # <<>>
    /\ sim.game_over /\ sim.winner = 1
    /\ HivesOf(sim, 0) = 0 /\ HivesOf(sim, 1) = 0

\* both hives fell on one tick
C18_Draw == sim_hist # <<>> /\ sim.game_over /\ sim.winner = -1

\* player 1 began with the site only and founded on the first tick
C18_FoundedInTime ==
    /\ sim_hist # <<>> /\ sim.tick > 0 /\ ~sim.game_over
    /\ ~HasEntity(sim, 4) /\ ~HasEntity(sim, 5) /\ HivesOf(sim, 1) = 1

\* player 0 has won against a player that has the site only
C18_SiteIsNoHive ==
    /\ sim_hist # <<>> /\ sim.game_over /\ sim.winner = 0
    /\ HasEntity(sim, 4) /\ get_entity(sim, 4).entity_type = HIVE_SITE

-----------------------------------------------------------------------------
(* SpecMove: units are given one MOVE on tick 0 and no command after it.   *)

\* an open 12x6 map, with a wall across the rows 1..3 of column 6 or without
MoveMap(wall) ==
    IF wall
    THEN set_tile(set_tile(set_tile(open_map(12, 6), 6, 1, ROCK), 6, 2, ROCK), 6, 3, ROCK)
    ELSE open_map(12, 6)

\* ids: 0, 1 the hives | 2.. the units of player 0, the first of them a queen
\* if asked for
MoveScene(wall, queen, tiles) ==
    LET hives == add_hive(add_hive(NewGameState(0, 42, MoveMap(wall)), 0, <<2, 2>>),
                          1, <<9, 3>>)
    IN  IF queen THEN add_queen(hives, 0, tiles[1]) ELSE add_ants(hives, 0, tiles)

MoveStarts == { << <<3, 2>> >>, << <<4, 4>> >>, << <<3, 2>>, <<4, 4>> >> }
MoveGoals == { <<10, 4>>, <<8, 1>>, <<5, 3>> }

InitMove ==
    /\ InitNet /\ InitCodecIdle
    /\ calc = <<>>
    /\ \E wall \in BOOLEAN, queen \in BOOLEAN, tiles \in MoveStarts, goal \in MoveGoals :
          /\ queen => tiles = << <<4, 4>> >> /\ goal = <<5, 3>>
          /\ sim = MoveScene(wall, queen, tiles)
          /\ sim_hist = [issued |-> FALSE, goal |-> goal,
                         movers |-> {1 + k : k \in 1..Len(tiles)}]

\* advance_tick with one MOVE that names every unit of the scene
IssueMoveAll ==
    /\ sim_hist # <<>> /\ ~sim_hist.issued
    /\ sim' = advance_tick(sim,
                 <<Command(MOVE, 0, sim.tick, [k \in 1..Cardinality(sim_hist.movers) |-> 1 + k],
                           TileCentre(sim_hist.goal[1]), TileCentre(sim_hist.goal[2]), 0)>>)
    /\ sim_hist' = [sim_hist EXCEPT !.issued = TRUE]
    /\ UNCHANGED <<netVars, codecVars, calc>>

TickMove ==
    /\ sim_hist # <<>> /\ sim_hist.issued
    /\ sim.tick < MaxTickMove
    /\ sim' = advance_tick(sim, <<>>)
    /\ UNCHANGED <<netVars, codecVars, calc, sim_hist>>

NextMove == IssueMoveAll \/ TickMove
\* what NextMove needs to be taken
CanMove == sim_hist # <<>> /\ (~sim_hist.issued \/ sim.tick < MaxTickMove)

\* the game loop keeps ticking (weak fairness of NextMove, written out with
\* its enabling condition CanMove)
FairMove == []<>(~CanMove) \/ []<><<NextMove>>_vars
SpecMove == InitMove /\ [][NextMove]_vars /\ FairMove

\* the MOVE was given, the unit has no path, is not moving and is within one
\* tile of the goal
Rests(entity_id) ==
    /\ sim_hist.issued
    /\ HasEntity(sim, entity_id)
    /\ get_entity(sim, entity_id).path = <<>>
    /\ ~is_moving(get_entity(sim, entity_id))
    /\ Abs(get_entity(sim, entity_id).x - TileCentre(sim_hist.goal[1])) <= MILLI_TILES_PER_TILE
    /\ Abs(get_entity(sim, entity_id).y - TileCentre(sim_hist.goal[2])) <= MILLI_TILES_PER_TILE

\* C19: every unit that was given the MOVE eventually has an empty path and
\* stands within one tile of the goal, its target its position, and stays so
\* on every later tick.
C19_MoveCompletes ==
    /\ <>[](sim_hist # <<>> /\ sim_hist.issued /\ \A id \in sim_hist.movers : Rests(id))
    /\ [][\A id \in sim_hist.movers : Rests(id) => Rests(id)']_vars

\* the same for a unit that was given the MOVE alone
C19_LoneMoveCompletes ==
    /\ <>[](sim_hist # <<>> /\ sim_hist.issued
            /\ (Cardinality(sim_hist.movers) = 1 => \A id \in sim_hist.movers : Rests(id)))
    /\ [][Cardinality(sim_hist.movers) = 1 => \A id \in sim_hist.movers : Rests(id) => Rests(id)']_vars

BothArrived ==
    /\ sim_hist # <<>> /\ sim_hist.issued /\ Cardinality(sim_hist.movers) = 2
    /\ \A id \in sim_hist.movers : HasEntity(sim, id) /\ get_entity(sim, id).path = <<>>

\* two units sent to one goal never rest there: from the tick both have
\* arrived, one of them is away from its target at the end of every tick
C19_PairNeverRests == BothArrived => \E id \in sim_hist.movers : ~Rests(id)

C19_PairArrived == BothArrived /\ sim.tick = MaxTickMove

C19_LoneRests ==
    /\ sim_hist # <<>> /\ sim_hist.issued /\ sim_hist.movers = {2}
    /\ sim.tilemap = MoveMap(TRUE) /\ sim_hist.goal = <<10, 4>>
    /\ Rests(2) /\ sim.tick = MaxTickMove

-----------------------------------------------------------------------------
(* SpecHarvest: ants are given one HARVEST on tick 0, on one corpse, and   *)
(* no command after it.                                                    *)

\* ids: 0, 1 the hives | 2 the corpse | 3.. the ants of player 0
HarvestScene(jelly, tiles) ==
    LET hives == add_hive(add_hive(NewGameState(0, 42, open_map(12, 6)), 0, <<2, 2>>),
                          1, <<9, 3>>)
    IN  add_ants(add_corpse(hives, <<5, 2>>, jelly), 0, tiles)

HarvestStarts == { << <<3, 2>> >>, << <<3, 4>> >>, << <<3, 2>>, <<3, 4>> >>,
                   << <<3, 3>>, <<4, 4>> >> }
HarvestJelly == {3, 12}

InitHarvest ==
    /\ InitNet /\ InitCodecIdle
    /\ calc = <<>>
    /\ \E jelly \in HarvestJelly, tiles \in HarvestStarts :
          /\ sim = HarvestScene(jelly, tiles)
          /\ sim_hist = [issued |-> FALSE, ants |-> {2 + k : k \in 1..Len(tiles)},
                         extracted |-> {}]

\* the ants that carry more after the step than before it
Extracting(after) ==
    {id \in sim_hist.ants :
        HasEntity(sim, id) /\ HasEntity(after, id)
        /\ get_entity(after, id).carrying > get_entity(sim, id).carrying}

\* advance_tick with one HARVEST that names every ant of the scene
IssueHarvest ==
    /\ sim_hist # <<>> /\ ~sim_hist.issued
    /\ sim' = advance_tick(sim,
                 <<Command(HARVEST, 0, sim.tick, [k \in 1..Cardinality(sim_hist.ants) |-> 2 + k],
                           0, 0, 2)>>)
    /\ sim_hist' = [sim_hist EXCEPT !.issued = TRUE, !.extracted = @ \cup Extracting(sim')]
    /\ UNCHANGED <<netVars, codecVars, calc>>

TickHarvest ==
    /\ sim_hist # <<>> /\ sim_hist.issued
    /\ sim.tick < MaxTickHarvest
    /\ sim' = advance_tick(sim, <<>>)
    /\ sim_hist' = [sim_hist EXCEPT !.extracted = @ \cup Extracting(sim')]
    /\ UNCHANGED <<netVars, codecVars, calc>>

NextHarvest == IssueHarvest \/ TickHarvest

\* what NextHarvest needs to be taken
CanHarvest == sim_hist # <<>> /\ (~sim_hist.issued \/ sim.tick < MaxTickHarvest)

\* the game loop keeps ticking
FairHarvest == []<>(~CanHarvest) \/ []<><<NextHarvest>>_vars
SpecHarvest == InitHarvest /\ [][NextHarvest]_vars /\ FairHarvest

\* the jelly the ants of the scene lay down in the step
Deposited ==
    LET drop(id) == IF HasEntity(sim, id) /\ HasEntity(sim', id)
                       /\ get_entity(sim', id).carrying < get_entity(sim, id).carrying
                    THEN get_entity(sim, id).carrying ELSE 0
        ids == sim_hist.ants
    IN  (IF 3 \in ids THEN drop(3) ELSE 0) + (IF 4 \in ids THEN drop(4) ELSE 0)

\* what an ant lays down goes to its player, on top of the income of the tick
DepositStep ==
    /\ \A id \in sim_hist.ants :
          (HasEntity(sim, id) /\ HasEntity(sim', id)
           /\ get_entity(sim', id).carrying < get_entity(sim, id).carrying)
          => get_entity(sim', id).carrying = 0
    /\ sim'.player_jelly[0] = apply_passive_income(sim).player_jelly[0] + Deposited

\* the ant is IDLE with nothing carried, the corpse is empty
HarvestDone(ids) ==
    /\ sim_hist # <<>> /\ sim_hist.issued
    /\ HasEntity(sim, 2) /\ get_entity(sim, 2).jelly_value = 0
    /\ \A id \in ids :
          /\ HasEntity(sim, id)
          /\ get_entity(sim, id).state = IDLE
          /\ get_entity(sim, id).carrying = 0

\* C20: every ant given the HARVEST extracts jelly and lays all of it down at
\* the hive, and is IDLE once the corpse is empty.  The claim says
\* "eventually"; it is stated here as the result on the last tick of the run,
\* MaxTickHarvest ticks after the HARVEST, by when an ant that harvests alone
\* has emptied the corpse and is IDLE (C20_LoneHarvestCompletes).
C20_HarvestCompletes ==
    (sim_hist # <<>> /\ sim.tick = MaxTickHarvest) =>
        /\ sim_hist.extracted = sim_hist.ants
        /\ HarvestDone(sim_hist.ants)

\* what an ant lays down goes to its player: holds for one ant and for two
C20_DepositsCounted == [][DepositStep]_vars

\* two ants that are both at the corpse, HARVESTING and without a path, are
\* in the same place one tick later: neither extracts, lays down or goes IDLE
AtCorpse(state) ==
    /\ HasEntity(state, 2)
    /\ \A id \in sim_hist.ants :
          /\ get_entity(state, id).state = HARVESTING
          /\ get_entity(state, id).path = <<>>
          /\ is_moving(get_entity(state, id))
          /\ get_entity(state, id).target_x = get_entity(state, 2).x
          /\ get_entity(state, id).target_y = get_entity(state, 2).y

C20_PairStaysStuck ==
    [][(Cardinality(sim_hist.ants) = 2 /\ AtCorpse(sim)) =>
          /\ AtCorpse(sim')
          /\ \A id \in sim_hist.ants :
                get_entity(sim', id).carrying = get_entity(sim, id).carrying]_vars

\* the same for an ant that harvests alone
C20_LoneHarvestCompletes ==
    /\ <>(sim_hist # <<>> /\ (Cardinality(sim_hist.ants) = 1 => sim_hist.extracted = sim_hist.ants))
    /\ <>[](sim_hist # <<>> /\ (Cardinality(sim_hist.ants) = 1 => HarvestDone(sim_hist.ants)))
    /\ [][DepositStep]_vars

\* two ants beside the corpse that has jelly, both HARVESTING and both pushed
\* off their target, on the last tick
C20_PairStuck ==
    /\ sim_hist # <<>> /\ sim_hist.ants = {3, 4} /\ sim.tick = MaxTickHarvest
    /\ get_entity(sim, 2).jelly_value > 0
    /\ \A id \in sim_hist.ants :
          /\ get_entity(sim, id).state = HARVESTING
          /\ is_moving(get_entity(sim, id))
          /\ DistSq(get_entity(sim, id), get_entity(sim, 2)) <= HARVEST_RANGE_SQ

\* the ant that harvested alone has laid down all the jelly of the corpse
C20_LoneDone ==
    /\ sim_hist # <<>> /\ sim_hist.ants = {3} /\ sim_hist.extracted = {3}
    /\ HarvestDone({3})
    /\ sim.player_jelly[0] > STARTING_JELLY + 12

-----------------------------------------------------------------------------
(* MERGE_QUEEN under SpecCmd.                                              *)

\* the ids that are live before the step and not after it, and the reverse
RemovedIds == LiveIds(sim) \ LiveIds(sim')
CreatedIds == LiveIds(sim') \ LiveIds(sim)

\* the step removed exactly QUEEN_MERGE_COST ants of the sender within merge
\* range of the sender's hive that the command targets, created one queen of
\* the sender at the hive and changed nothing else
MergedExactly(cmd) ==
    /\ HasEntity(sim, cmd.target_entity_id)
    /\ get_entity(sim, cmd.target_entity_id).entity_type = HIVE
    /\ get_entity(sim, cmd.target_entity_id).player_id = cmd.player_id
    /\ Cardinality(RemovedIds) = QUEEN_MERGE_COST
    /\ \A id \in RemovedIds :
          /\ get_entity(sim, id).entity_type = ANT
          /\ get_entity(sim, id).player_id = cmd.player_id
          /\ DistSq(get_entity(sim, id), get_entity(sim, cmd.target_entity_id)) <= MERGE_RANGE_SQ
          /\ \E k \in DOMAIN cmd.entity_ids : cmd.entity_ids[k] = id
    /\ Cardinality(CreatedIds) = 1
    /\ \A id \in CreatedIds :
          /\ get_entity(sim', id).entity_type = QUEEN
          /\ get_entity(sim', id).player_id = cmd.player_id
          /\ get_entity(sim', id).x = get_entity(sim, cmd.target_entity_id).x
          /\ get_entity(sim', id).y = get_entity(sim, cmd.target_entity_id).y
    /\ \A id \in LiveIds(sim) \cap LiveIds(sim') : get_entity(sim', id) = get_entity(sim, id)
    /\ sim'.player_jelly = sim.player_jelly

DistinctIds(ids) == \A i, j \in DOMAIN ids : i # j => ids[i] # ids[j]

C21_MergeStep ==
    (sim_hist' # <<>> /\ sim_hist'[1].command_type = MERGE_QUEEN)
        => (sim' = sim \/ MergedExactly(sim_hist'[1]))

\* C21: a MERGE_QUEEN with any sequence of entity ids either leaves the state
\* unchanged or removes exactly QUEEN_MERGE_COST distinct ants of the sender
\* within merge range of the targeted own hive and creates exactly one queen
\* of the sender at the hive's position.
C21_MergeAllOrNothing == [][C21_MergeStep]_vars

\* the same for a command whose entity ids are all different
C21_MergeOfDistinctIds ==
    [][(sim_hist' # <<>> /\ DistinctIds(sim_hist'[1].entity_ids)) => C21_MergeStep]_vars

\* a MERGE_QUEEN that names one ant five times has made a queen of that ant
C21_QueenOfOneAnt ==
    /\ sim_hist # <<>> /\ sim_hist[1].command_type = MERGE_QUEEN
    /\ sim_hist[1].entity_ids = <<1, 1, 1, 1, 1>>
    /\ ~HasEntity(sim, 1) /\ \A id \in 2..5 : HasEntity(sim, id)
    /\ HasEntity(sim, 12) /\ get_entity(sim, 12).entity_type = QUEEN

\* a MERGE_QUEEN that names five ants has made a queen of them
C21_QueenOfFive ==
    /\ sim_hist # <<>> /\ sim_hist[1].command_type = MERGE_QUEEN
    /\ \A id \in 1..5 : ~HasEntity(sim, id)
    /\ HasEntity(sim, 12) /\ get_entity(sim, 12).entity_type = QUEEN

-----------------------------------------------------------------------------
(* SpecFound: one hive site with queens around it that are ordered to      *)
(* found a hive there, on the same tick or on different ticks.             *)

\* ids: 0, 1 the hives | 2 the hive site | 3 queen of player 0 beside the
\* site | 4 queen of the given player on the given tile | 5 queen of player 0
\* beside the site that is given no order
FoundScene(player, tile) ==
    LET hives == add_hive(add_hive(NewGameState(0, 42, open_map(12, 6)), 0, <<2, 2>>),
                          1, <<9, 3>>)
        site == add_hive_site(hives, <<5, 3>>)
    IN  add_queen(add_queen(add_queen(site, 0, <<5, 2>>), player, tile), 0, <<4, 3>>)

\* beside the site, or too far from it to arrive during the run
FoundTiles == { <<6, 3>>, <<8, 2>> }

InitFound ==
    /\ InitNet /\ InitCodecIdle
    /\ calc = <<>>
    /\ \E player \in 0..1, tile \in FoundTiles : sim = FoundScene(player, tile)
    /\ sim_hist = [ordered |-> {}]

TickFound ==
    /\ sim_hist # <<>>
    /\ sim.tick < MaxTickFound
    /\ sim' = advance_tick(sim, <<>>)
    /\ UNCHANGED <<netVars, codecVars, calc, sim_hist>>

FoundCommand(queen_id) ==
    Command(FOUND_HIVE, get_entity(sim, queen_id).player_id, sim.tick, <<queen_id>>, 0, 0, 2)

\* advance_tick with FOUND_HIVE for one of the queens 3 and 4 or for both,
\* in the order of the players
IssueFounding ==
    /\ sim_hist # <<>>
    /\ sim.tick < MaxTickFound
    /\ \E queens \in (SUBSET ({3, 4} \ sim_hist.ordered)) \ {{}} :
          /\ \A q \in queens : HasEntity(sim, q)
          /\ sim' = advance_tick(sim,
                       IF queens = {3, 4} THEN <<FoundCommand(3), FoundCommand(4)>>
                       ELSE <<FoundCommand(CHOOSE q \in queens : TRUE)>>)
          /\ sim_hist' = [sim_hist EXCEPT !.ordered = @ \cup queens]
    /\ UNCHANGED <<netVars, codecVars, calc>>

NextFound == TickFound \/ IssueFounding
SpecFound == InitFound /\ [][NextFound]_vars

RemovedOfType(etype) == {id \in RemovedIds : get_entity(sim, id).entity_type = etype}
CreatedHives == {id \in CreatedIds : get_entity(sim', id).entity_type = HIVE}

FoundStep ==
    /\ Cardinality(RemovedOfType(QUEEN)) = Cardinality(CreatedHives)
    /\ Cardinality(RemovedOfType(HIVE_SITE)) = Cardinality(CreatedHives)
    /\ RemovedOfType(QUEEN) \subseteq sim_hist'.ordered
    /\ \A h \in CreatedHives :
          /\ \E st \in RemovedOfType(HIVE_SITE) :
                /\ get_entity(sim', h).x = get_entity(sim, st).x
                /\ get_entity(sim', h).y = get_entity(sim, st).y
          /\ \E q \in RemovedOfType(QUEEN) :
                get_entity(sim', h).player_id = get_entity(sim, q).player_id

\* C22: every founding removes one FOUNDING queen and one hive site and
\* creates one hive at the site's position for the queen's player; a site
\* becomes at most one hive even when several FOUNDING queens are in range of
\* it on one tick; a queen that is not FOUNDING never founds.
C22_FoundingOneToOne == [][FoundStep]_vars

\* the same on the steps on which at most one queen founds
C22_OneQueenOneHive == [][Cardinality(RemovedOfType(QUEEN)) <= 1 => FoundStep]_vars

\* both queens were ordered on one tick: the one site is gone and two hives
\* stand on its tile
C22_TwoHivesOnOneSite ==
    /\ sim_hist # <<>> /\ sim_hist.ordered = {3, 4}
    /\ ~HasEntity(sim, 2) /\ ~HasEntity(sim, 3) /\ ~HasEntity(sim, 4)
    /\ HasEntity(sim, 6) /\ get_entity(sim, 6).entity_type = HIVE
    /\ HasEntity(sim, 7) /\ get_entity(sim, 7).entity_type = HIVE
    /\ get_entity(sim, 6).x = get_entity(sim, 7).x /\ get_entity(sim, 6).y = get_entity(sim, 7).y

\* one queen has founded; the queen without an order stands beside the hive
C22_OneFounded ==
    /\ sim_hist # <<>> /\ sim_hist.ordered = {3}
    /\ ~HasEntity(sim, 2) /\ ~HasEntity(sim, 3) /\ HasEntity(sim, 4) /\ HasEntity(sim, 5)
    /\ HasEntity(sim, 6) /\ get_entity(sim, 6).entity_type = HIVE /\ ~HasEntity(sim, 7)

-----------------------------------------------------------------------------
(* commands.py: CommandQueue.  SpecQueue: two queues that are given        *)
(* commands in any order and are popped for tick 0.                        *)

\* CommandQueue.__init__: _commands, tick -> list, no list for any tick
CommandQueue == [t \in 0..1 |-> <<>>]

\* CommandQueue.add: appended to the list of its tick unless it is in it
queue_add(commands, command) ==
    IF \E i \in DOMAIN commands[command.tick] : commands[command.tick][i] = command
    THEN commands
    ELSE [commands EXCEPT ![command.tick] = Append(@, command)]

\* CommandQueue.pop_tick: <<the queue without the tick, the sorted list>>
pop_tick(commands, tick) == <<[commands EXCEPT ![tick] = <<>>], SortByKey(commands[tick])>>

\* two MOVEs of player 0 for different units, a STOP of player 0, a MOVE of
\* player 1, all for tick 0, and a MOVE of player 0 for tick 1
QueuePool ==
    { Command(MOVE, 0, 0, <<1>>, 6500, 4500, 0), Command(MOVE, 0, 0, <<2>>, 3500, 1500, 0),
      Command(STOP, 0, 0, <<1>>, 0, 0, 0), Command(MOVE, 1, 0, <<7>>, 6500, 4500, 0),
      Command(MOVE, 0, 1, <<1>>, 6500, 4500, 0) }

InitQueue ==
    /\ InitNet /\ InitCodecIdle
    /\ sim = <<>> /\ sim_hist = <<>>
    /\ calc = [queues |-> <<CommandQueue, CommandQueue>>, added |-> <<{}, {}>>, popped |-> <<>>]

QueueAdd ==
    /\ calc # <<>> /\ calc.popped = <<>>
    /\ \E k \in 1..2, command \in QueuePool :
          /\ Cardinality(calc.added[k]) < MaxQueued
          /\ calc' = [calc EXCEPT !.queues[k] = queue_add(@, command),
                                  !.added[k] = @ \cup {command}]
    /\ UNCHANGED <<netVars, codecVars, sim, sim_hist>>

QueuePop ==
    /\ calc # <<>> /\ calc.popped = <<>>
    /\ calc' = [calc EXCEPT !.queues = <<pop_tick(calc.queues[1], 0)[1], pop_tick(calc.queues[2], 0)[1]>>,
                            !.popped = <<<<pop_tick(calc.queues[1], 0)[2]>>,
                                         <<pop_tick(calc.queues[2], 0)[2]>>>>]
    /\ UNCHANGED <<netVars, codecVars, sim, sim_hist>>

NextQueue == QueueAdd \/ QueuePop
SpecQueue == InitQueue /\ [][NextQueue]_vars

Popped(k) == calc.popped[k][1]

\* C23: two queues that were given the same commands, in whatever order,
\* pop the same sequence for the tick.
C23_CanonicalOrder ==
    (calc # <<>> /\ calc.popped # <<>> /\ calc.added[1] = calc.added[2])
        => Popped(1) = Popped(2)

DistinctKeys(cmds) ==
    \A a, b \in cmds : a # b /\ a.tick = b.tick => sort_key(a) # sort_key(b)

\* the same for commands no two of which have the same sort key
C23_CanonicalForDistinctKeys ==
    (calc # <<>> /\ calc.popped # <<>> /\ calc.added[1] = calc.added[2]
     /\ DistinctKeys(calc.added[1]))
        => Popped(1) = Popped(2)

\* the two MOVEs of player 0 come out in the order they were added in
C23_OrderOfInsertion ==
    /\ calc # <<>> /\ calc.popped # <<>> /\ calc.added[1] = calc.added[2]
    /\ Len(Popped(1)) = 3
    /\ Popped(1)[1].entity_ids = <<1>> /\ Popped(1)[2].entity_ids = <<2>>
    /\ Popped(2)[1].entity_ids = <<2>> /\ Popped(2)[2].entity_ids = <<1>>
    /\ Popped(1)[3] = Popped(2)[3] /\ Popped(1)[3].player_id = 1

-----------------------------------------------------------------------------
(* tilemap.py: generate_map.  SpecMap: one map is generated for a seed     *)
(* and a size.                                                             *)

\* [value] * count
RECURSIVE Repeat(_, _)
Repeat(value, count) ==
    IF count <= 0 THEN <<>>
    ELSE IF count % 2 = 1 THEN Append(Repeat(value, count - 1), value)
    ELSE Repeat(value, count \div 2) \o Repeat(value, count \div 2)

\* TileMap.__init__: all dirt, no start positions, no hive sites
TileMap(width, height) ==
    [width |-> width, height |-> height,
     tiles |-> Repeat(DIRT, width * height),
     start_positions |-> <<>>, hive_site_positions |-> <<>>]

half_width(tilemap) == (tilemap.width + 1) \div 2

\* generate_map step 1, inner loop: the cells x.. of row y of the left half,
\* one LCG step per cell, rock when val % 100 < 45; <<tilemap, rng>>
RECURSIVE scatter_row(_, _, _, _)
scatter_row(tilemap, rng, x, y) ==
    IF x >= half_width(tilemap) THEN <<tilemap, rng>>
    ELSE LET val == lcg_next(rng)
         IN  scatter_row(IF rng_mod(val, 100) < 45 THEN set_tile(tilemap, x, y, ROCK) ELSE tilemap,
                         val, x + 1, y)

\* generate_map step 1, outer loop: the rows y..
RECURSIVE scatter(_, _, _)
scatter(tilemap, rng, y) ==
    IF y >= tilemap.height THEN tilemap
    ELSE LET row == scatter_row(tilemap, rng, 0, y)
         IN  scatter(row[1], row[2], y + 1)

\* generate_map step 2: the cells among the nine around (x, y), itself
\* included, that are rock or outside the map
rock_neighbors(tilemap, x, y) ==
    Cardinality({d \in (-1..1) \X (-1..1) :
        \/ x + d[1] < 0 \/ x + d[1] >= tilemap.width
        \/ y + d[2] < 0 \/ y + d[2] >= tilemap.height
        \/ tilemap.tiles[(y + d[2]) * tilemap.width + x + d[1] + 1] = ROCK})

\* one iteration, inner loop: the map with new_tiles is written from the
\* old tiles
RECURSIVE smooth_row(_, _, _, _)
smooth_row(tilemap, new_map, x, y) ==
    IF x >= half_width(new_map) THEN new_map
    ELSE smooth_row(tilemap,
                    set_tile(new_map, x, y, IF rock_neighbors(tilemap, x, y) >= 5 THEN ROCK ELSE DIRT),
                    x + 1, y)

RECURSIVE smooth_rows(_, _, _)
smooth_rows(tilemap, new_map, y) ==
    IF y >= new_map.height THEN new_map
    ELSE smooth_rows(tilemap, smooth_row(tilemap, new_map, 0, y), y + 1)

RECURSIVE smooth(_, _)
smooth(tilemap, iterations) ==
    IF iterations = 0 THEN tilemap
    ELSE smooth(smooth_rows(tilemap, tilemap, 0), iterations - 1)

\* generate_map step 3: the left half copied onto the right half
RECURSIVE mirror_row(_, _, _)
mirror_row(tilemap, x, y) ==
    IF x >= half_width(tilemap) THEN tilemap
    ELSE mirror_row([tilemap EXCEPT !.tiles[y * tilemap.width + (tilemap.width - 1 - x) + 1] =
                                        tilemap.tiles[y * tilemap.width + x + 1]],
                    x + 1, y)

RECURSIVE mirror(_, _)
mirror(tilemap, y) ==
    IF y >= tilemap.height THEN tilemap
    ELSE mirror(mirror_row(tilemap, 0, y), y + 1)

\* generate_map step 4: rock on the first and last row, then on the first
\* and last column
RECURSIVE border_rows(_, _)
border_rows(tilemap, x) ==
    IF x >= tilemap.width THEN tilemap
    ELSE border_rows(set_tile(set_tile(tilemap, x, 0, ROCK), x, tilemap.height - 1, ROCK), x + 1)

RECURSIVE border_columns(_, _)
border_columns(tilemap, y) ==
    IF y >= tilemap.height THEN tilemap
    ELSE border_columns(set_tile(set_tile(tilemap, 0, y, ROCK), tilemap.width - 1, y, ROCK), y + 1)

\* the offsets (dx, dy) of the disk of _clear_symmetric
Disk(radius) ==
    {d \in ((0 - radius)..radius) \X ((0 - radius)..radius) :
        d[1] * d[1] + d[2] * d[2] <= radius * radius}

\* _clear_symmetric with the disk around the centre only
clear_one_side(tilemap, cx, cy, radius) ==
    [tilemap EXCEPT !.tiles =
        [i \in 1..(tilemap.width * tilemap.height) |->
            LET x == (i - 1) % tilemap.width
                y == (i - 1) \div tilemap.width
            IN  IF \E d \in Disk(radius) : <<x, y>> = <<cx + d[1], cy + d[2]>>
                THEN DIRT ELSE tilemap.tiles[i]]]

\* _clear_symmetric: dirt on the tiles of the map at an offset of the disk
\* from the centre or at the same offset from the mirrored centre
clear_symmetric(tilemap, cx, cy, radius) ==
    [tilemap EXCEPT !.tiles =
        [i \in 1..(tilemap.width * tilemap.height) |->
            LET x == (i - 1) % tilemap.width
                y == (i - 1) \div tilemap.width
            IN  IF \E d \in Disk(radius) :
                      \/ <<x, y>> = <<cx + d[1], cy + d[2]>>
                      \/ <<x, y>> = <<tilemap.width - 1 - cx + d[1], cy + d[2]>>
                THEN DIRT ELSE tilemap.tiles[i]]]

\* generate_map steps 5 and 6
place_starts(tilemap) ==
    clear_symmetric(
        [tilemap EXCEPT !.start_positions =
            << <<tilemap.width \div 4, tilemap.height \div 2>>,
               <<tilemap.width - 1 - tilemap.width \div 4, tilemap.height \div 2>> >>],
        tilemap.width \div 4, tilemap.height \div 2, 6)

place_hive_sites(tilemap) ==
    clear_symmetric(
        clear_symmetric(
            [tilemap EXCEPT !.hive_site_positions =
                << <<tilemap.width \div 2, tilemap.height \div 4>>,
                   <<tilemap.width \div 2, (3 * tilemap.height) \div 4>> >>],
            tilemap.width \div 2, tilemap.height \div 4, 3),
        tilemap.width \div 2, (3 * tilemap.height) \div 4, 3)

generate_map(seed, width, height) ==
    place_hive_sites(place_starts(border_columns(border_rows(
        mirror(smooth(scatter(TileMap(width, height), seed, 0), 4), 0), 0), 0)))

MapSeeds == {<<0, 42>>, <<65535, 65535>>}

InitMap ==
    /\ InitNet /\ InitCodecIdle
    /\ sim = <<>> /\ sim_hist = <<>>
    /\ \E seed \in MapSeeds, width \in 1..MaxMapWidth, height \in 1..MaxMapHeight :
          calc = [seed |-> seed, width |-> width, height |-> height, tilemap |-> <<>>]

GenerateMap ==
    /\ calc # <<>> /\ calc.tilemap = <<>>
    /\ calc' = [calc EXCEPT !.tilemap = generate_map(calc.seed, calc.width, calc.height)]
    /\ UNCHANGED <<netVars, codecVars, sim, sim_hist>>

NextMap == GenerateMap
SpecMap == InitMap /\ [][NextMap]_vars

Generated == calc # <<>> /\ calc.tilemap # <<>>

\* C24: a generated map is its own mirror image, tile(x, y) = tile(w-1-x, y)
\* for all x and y, and the second start position is the mirror image of
\* the first.
C24_MapSymmetry ==
    Generated =>
        /\ \A x \in 0..(calc.width - 1), y \in 0..(calc.height - 1) :
              get_tile(calc.tilemap, x, y) = get_tile(calc.tilemap, calc.width - 1 - x, y)
        /\ Len(calc.tilemap.start_positions) = 2
        /\ calc.tilemap.start_positions[2] =
              <<calc.width - 1 - calc.tilemap.start_positions[1][1],
                calc.tilemap.start_positions[1][2]>>

\* rock on a tile that is not on the edge of the map
InnerRock(tilemap) ==
    \E x \in 1..(tilemap.width - 2), y \in 1..(tilemap.height - 2) : get_tile(tilemap, x, y) = ROCK

\* an odd width, rock left inside the map by the smoothing, and a start
\* disk that has cleared tiles of the rock border
C24_Witness ==
    /\ Generated
    /\ calc.width % 2 = 1
    /\ InnerRock(calc.tilemap)
    /\ \E y \in 0..(calc.height - 1) : get_tile(calc.tilemap, 0, y) = DIRT
    /\ \E x \in 0..(calc.width - 1) : get_tile(calc.tilemap, x, 0) = ROCK

\* a map so small that the disks clear all of it
C24_AllCleared ==
    /\ Generated
    /\ calc.width > 1
    /\ \A x \in 0..(calc.width - 1), y \in 0..(calc.height - 1) : get_tile(calc.tilemap, x, y) = DIRT

-----------------------------------------------------------------------------
(* pathfinding.py: find_path.  SpecPath: one search on a grid with a few   *)
(* rock tiles, from any tile to any tile.                                  *)

PathSize == [width |-> 4, height |-> 3]

PathTiles == (0..(PathSize.width - 1)) \X (0..(PathSize.height - 1))

\* the grid with rock on the tiles of rocks, dirt elsewhere
PathMap(rocks) ==
    [width |-> PathSize.width, height |-> PathSize.height,
     tiles |-> [i \in 1..(PathSize.width * PathSize.height) |->
                  IF <<(i - 1) % PathSize.width, (i - 1) \div PathSize.width>> \in rocks
                  THEN ROCK ELSE DIRT]]

InitPath ==
    /\ InitNet /\ InitCodecIdle
    /\ sim = <<>> /\ sim_hist = <<>>
    /\ \E rocks \in SUBSET PathTiles, start \in PathTiles, goal \in PathTiles :
          /\ Cardinality(rocks) <= MaxRocks
          /\ calc = [tilemap |-> PathMap(rocks), start |-> start, goal |-> goal,
                     searched |-> FALSE, path |-> <<>>]

FindPath ==
    /\ calc # <<>> /\ ~calc.searched
    /\ calc' = [calc EXCEPT !.searched = TRUE,
                            !.path = find_path(calc.tilemap, calc.start[1], calc.start[2],
                                               calc.goal[1], calc.goal[2])]
    /\ UNCHANGED <<netVars, codecVars, sim, sim_hist>>

NextPath == FindPath
SpecPath == InitPath /\ [][NextPath]_vars

\* one step of the eight from tile a to tile b: b is walkable, and for a
\* diagonal step so are the two tiles that share an edge with both
LegalStep(tilemap, a, b) ==
    /\ is_walkable(tilemap, b[1], b[2])
    /\ Abs(b[1] - a[1]) <= 1 /\ Abs(b[2] - a[2]) <= 1 /\ a # b
    /\ (b[1] # a[1] /\ b[2] # a[2]) =>
          /\ is_walkable(tilemap, b[1], a[2])
          /\ is_walkable(tilemap, a[1], b[2])

\* the tiles that legal steps lead to from the tiles of seen
RECURSIVE ReachableFrom(_, _)
ReachableFrom(tilemap, seen) ==
    LET more == {b \in PathTiles : \E a \in seen : LegalStep(tilemap, a, b)} \ seen
    IN  IF more = {} THEN seen ELSE ReachableFrom(tilemap, seen \cup more)

\* the tile before path[i]
Before(i) == IF i = 1 THEN calc.start ELSE calc.path[i - 1]

Searched == calc # <<>> /\ calc.searched

\* C25: a non-empty path leaves out the start, ends at the goal, is made
\* of walkable tiles and of legal steps, the first one from the start; the
\* path is empty exactly when start = goal, the start or the goal is not
\* walkable, or no legal path leads from the start to the goal.
C25_PathCorrect ==
    Searched =>
        /\ calc.path # <<>> =>
              /\ \A i \in DOMAIN calc.path : calc.path[i] # calc.start
              /\ calc.path[Len(calc.path)] = calc.goal
              /\ \A i \in DOMAIN calc.path :
                    /\ is_walkable(calc.tilemap, calc.path[i][1], calc.path[i][2])
                    /\ LegalStep(calc.tilemap, Before(i), calc.path[i])
        /\ calc.path = <<>> <=>
              \/ calc.start = calc.goal
              \/ ~is_walkable(calc.tilemap, calc.start[1], calc.start[2])
              \/ ~is_walkable(calc.tilemap, calc.goal[1], calc.goal[2])
              \/ calc.goal \notin ReachableFrom(calc.tilemap, {calc.start})

\* a path that goes around a rock corner: start and goal touch diagonally
\* and the path has more than one step
C25_Witness ==
    /\ Searched
    /\ Abs(calc.start[1] - calc.goal[1]) = 1 /\ Abs(calc.start[2] - calc.goal[2]) = 1
    /\ Len(calc.path) > 1

\* no path between two walkable tiles cut off from each other
C25_NoPath ==
    /\ Searched
    /\ calc.start # calc.goal
    /\ is_walkable(calc.tilemap, calc.start[1], calc.start[2])
    /\ is_walkable(calc.tilemap, calc.goal[1], calc.goal[2])
    /\ calc.path = <<>>

\* a path with a diagonal step and more steps than the distance: a detour
C25_Detour ==
    /\ Searched
    /\ \E i \in DOMAIN calc.path :
          Before(i)[1] # calc.path[i][1] /\ Before(i)[2] # calc.path[i][2]
    /\ Len(calc.path) > Abs(calc.start[1] - calc.goal[1])
    /\ Len(calc.path) > Abs(calc.start[2] - calc.goal[2])

-----------------------------------------------------------------------------
(* The causes of entity creation, under SpecIdent.                         *)

ListedCreations == {ANT, QUEEN, HIVE, SPITTER, CORPSE}

\* no cause of the list acts on the step: no hive's spawn cooldown runs
\* out, and no entity is removed (merge, founding, morphing and death each
\* remove one)
QuietTick ==
    /\ RemovedIds = {}
    /\ \A i \in DOMAIN sim.entities :
          sim.entities[i].entity_type = HIVE => sim.entities[i].cooldown # 1

\* C26: on a tick an entity is created only by spawn cooldown expiry, queen
\* merge, founding, morphing or a death that leaves a corpse; on a tick
\* with none of these the set of entity ids and the rng state are unchanged.
C26_QuietStep ==
    (sim_hist # <<>> /\ sim'.tick = sim.tick + 1) =>
        /\ \A id \in CreatedIds : get_entity(sim', id).entity_type \in ListedCreations
        /\ QuietTick => (LiveIds(sim') = LiveIds(sim) /\ sim'.rng_state = sim.rng_state)

C26_CreationCauses == [][C26_QuietStep]_vars

\* the same on the ticks that are not a multiple of WILDLIFE_SPAWN_INTERVAL
C26_CausesBetweenSpawns ==
    [][sim_hist # <<>> /\ sim.tick % WILDLIFE_SPAWN_INTERVAL # 0 => C26_QuietStep]_vars

\* on a tick that is a multiple of WILDLIFE_SPAWN_INTERVAL the rng state
\* changes, whatever else happens
C26_SpawnTickRolls ==
    [][sim_hist # <<>> /\ sim'.tick = sim.tick + 1 /\ sim.tick % WILDLIFE_SPAWN_INTERVAL = 0
           => sim'.rng_state # sim.rng_state]_vars

\* wildlife has appeared on tick 0 without a command; only the corpse that
\* decayed has gone
C26_WildlifeFromNothing ==
    /\ sim_hist # <<>> /\ sim.tick = 1 /\ sim_hist.issued = {} /\ sim_hist.gone = {12}
    /\ \E i \in DOMAIN sim.entities :
          sim.entities[i].entity_type \in {APHID, BEETLE, MANTIS} /\ sim.entities[i].entity_id > 12

-----------------------------------------------------------------------------
(* SpecLossy: SpecLive on a channel that can lose every copy of a COMMANDS *)
(* frame.  A datagram in flight stands for all its copies; Lose takes it   *)
(* out of the channel for good.                                            *)

\* the tick of a COMMANDS datagram, -1 for any other datagram
CommandsTick(d) ==
    LET msg == decode_message(d[1])
    IN  IF msg.exc # "" \/ msg.msg_type # COMMANDS THEN -1
        ELSE IF decode_commands(msg.payload).exc # "" THEN -1
        ELSE decode_commands(msg.payload).tick

Lose(p, d) ==
    /\ d \in net[p]
    /\ CommandsTick(d) >= 0
    /\ net' = [net EXCEPT ![p] = @ \ {d}]
    /\ UNCHANGED <<pc, udp, game, ticks_left, recv_age, executed, accepted,
                   hash_log, hash_seen, crash, issued, injected, codecVars, simVars>>

NextLossy ==
    \E p \in Peers :
        \/ Host(p)
        \/ Connect(p)
        \/ RetryConnect(p)
        \/ StartGame(p)
        \/ \E d \in net[p] : Deliver(p, d)
        \/ \E d \in net[p] : Lose(p, d)
        \/ FrameBegin(p, MaxTickLive, 0)
        \/ TryAdvanceTick(p)
        \/ FrameEnd(p)

\* the processes keep running, frames with time elapsed keep coming, and a
\* datagram that stays in the channel is handed over at some poll
SpecLossy ==
    /\ Init /\ [][NextLossy]_vars
    /\ \A p \in Peers :
          /\ WF_vars(ProcessStep(p))
          /\ SF_vars(FrameWithTime(p))
          /\ SF_vars(Poll(p))

Other(p) == CHOOSE q \in Peers : q # p

InFlight(p, tick) == \E d \in net[p] : CommandsTick(d) = tick

\* the peer has transmitted its commands for the tick: the tick is marked
\* as sent, or it has run the tick, which it does after sending only
Published(q, tick) ==
    /\ game[q].phase = "PLAYING"
    /\ tick \in game[q].commands_sent_for_tick \/ game[q].state.tick > tick

\* the other peer has sent its commands for the tick, p has not stored
\* them, and no copy is on its way to p
CommandsLost(p, tick) ==
    /\ Published(Other(p), tick)
    /\ tick \notin accepted[p]
    /\ ~InFlight(p, tick)

\* C27: when every copy of a peer's COMMANDS frame for a tick is lost, the
\* commands for the tick are transmitted again on a later frame: a copy is
\* on its way again or the other peer has stored the commands.
C27_SendRetried ==
    \A p \in Peers, tick \in 0..MaxTickLive :
        CommandsLost(p, tick) ~> ~CommandsLost(p, tick)

\* a tick marked as sent is never transmitted again: once the commands for
\* a tick are lost they stay lost
C27_LostForGood ==
    [][\A p \in Peers, tick \in 0..MaxTickLive :
          CommandsLost(p, tick) => CommandsLost(p, tick)']_vars

\* a peer that lost the other's commands for its current tick never runs it
C27_BlockedForGood ==
    [][\A p \in Peers :
          CommandsLost(p, game[p].state.tick) => game'[p].state.tick = game[p].state.tick]_vars

\* a peer waits at tick 0 for commands that are lost while the other one is
\* two ticks further
C27_PeerLeftBehind ==
    \E p \in Peers :
        /\ game[p].phase = "PLAYING" /\ game[p].state.tick = 0
        /\ CommandsLost(p, 0)
        /\ game[Other(p)].state.tick = MaxTickLive

-----------------------------------------------------------------------------
(* SpecDesync: SpecHash run on past the first hash check.                  *)

NextDesync ==
    \E p \in Peers :
        \/ Host(p)
        \/ Connect(p)
        \/ RetryConnect(p)
        \/ StartGame(p)
        \/ \E d \in net[p] : Receive(p, d)
        \/ \E data \in ForgedAcks : p = "j" /\ Inject(p, data)
        \/ FrameBegin(p, MaxTickDesync, 0)
        \/ TryAdvanceTick(p)
        \/ FrameEnd(p)

SpecDesync == Init /\ [][NextDesync]_vars

\* the step records a desync of p: the flag is set or the recorded tick
\* changes
RecordsDesync(p) ==
    \/ ~game[p].desync_detected /\ game'[p].desync_detected
    \/ game'[p].desync_tick # game[p].desync_tick

\* the step is the _try_advance_tick call of p that ran tick - 1, and the
\* digest p held for tick is not the one p computed for it
MismatchAt(p, tick) ==
    /\ IsTryAdvance(p)
    /\ game[p].state.tick = tick - 1 /\ game'[p].state.tick = tick
    /\ DictHas(udp[p].received_hashes, tick)
    /\ DictHas(hash_log'[p], tick)
    /\ udp[p].received_hashes[tick] # hash_log'[p][tick]

C28_Step ==
    \A p \in Peers :
        /\ RecordsDesync(p) =>
              /\ game'[p].desync_detected
              /\ MismatchAt(p, game'[p].desync_tick)
              /\ game'[p].phase = "PLAYING"
        /\ game[p].desync_detected =>
              /\ game'[p].desync_detected
              /\ game'[p].phase = "PLAYING"
              /\ IsTryAdvance(p) =>
                    IF HasPeerCommands(p)
                    THEN /\ game'[p].state.tick = game[p].state.tick + 1
                         /\ executed'[p][Len(executed'[p])].tick = game[p].state.tick
                    ELSE /\ pc'[p] = "blocked"
                         /\ game'[p].state = game[p].state

C28_BlockedAfterDesync ==
    \E p \in Peers : game[p].desync_detected /\ pc[p] = "blocked"

-----------------------------------------------------------------------------
(* SpecRes: the resource fields.  Player 0 has little jelly and orders     *)
(* spawns, a morph and a harvest in any order on the first ticks.          *)

\* ids: 0, 1 hives | 2 corpse with 12 jelly at (5,2) | 3 ant of player 0 at
\* (3,2) | 4 ant of player 0 beside its hive
ResScene(jelly) == set_jelly(HarvestScene(12, << <<3, 2>>, <<2, 3>> >>), 0, jelly)

ResJelly == {0, 10, 18}
ResKinds == {SPAWN_ANT, MORPH_SPITTER, HARVEST}

ResCommand(kind, tick) ==
    CASE kind = SPAWN_ANT -> Command(SPAWN_ANT, 0, tick, <<>>, 0, 0, 0)
      [] kind = MORPH_SPITTER -> Command(MORPH_SPITTER, 0, tick, <<4>>, 0, 0, 0)
      [] kind = HARVEST -> Command(HARVEST, 0, tick, <<3>>, 0, 0, 2)

InitRes ==
    /\ InitNet /\ InitCodecIdle
    /\ calc = <<>>
    /\ \E jelly \in ResJelly :
          /\ sim = ResScene(jelly)
          /\ sim_hist = [last |-> -1, paid |-> {}, refused |-> {}]

\* the history keeps the order of the step, the kinds that were paid for
\* and the kinds ordered with less jelly than they cost
ResCost(kind) ==
    CASE kind = SPAWN_ANT -> ANT_SPAWN_COST
      [] kind = MORPH_SPITTER -> SPITTER_MORPH_COST
      [] OTHER -> 0

TickRes ==
    /\ sim_hist # <<>>
    /\ sim.tick < MaxTickRes
    /\ sim' = advance_tick(sim, <<>>)
    /\ sim_hist' = [sim_hist EXCEPT !.last = -1]
    /\ UNCHANGED <<netVars, codecVars, calc>>

IssueRes ==
    /\ sim_hist # <<>>
    /\ sim.tick <= MaxResCmdTick
    /\ \E kind \in ResKinds :
          /\ sim' = advance_tick(sim, <<ResCommand(kind, sim.tick)>>)
          /\ sim_hist' =
                [last |-> kind,
                 paid |-> IF sim'.player_jelly[0] < sim.player_jelly[0]
                          THEN sim_hist.paid \cup {kind} ELSE sim_hist.paid,
                 refused |-> IF sim.player_jelly[0] < ResCost(kind)
                             THEN sim_hist.refused \cup {kind} ELSE sim_hist.refused]
    /\ UNCHANGED <<netVars, codecVars, calc>>

NextRes == TickRes \/ IssueRes
SpecRes == InitRes /\ [][NextRes]_vars

ResourcesNonNegative(state) ==
    /\ \A p \in 0..1 : state.player_jelly[p] >= 0
    /\ \A i \in DOMAIN state.entities :
          /\ state.entities[i].entity_type = ANT =>
                (0 <= state.entities[i].carrying
                 /\ state.entities[i].carrying <= ANT_CARRY_CAPACITY)
          /\ state.entities[i].entity_type = CORPSE => state.entities[i].jelly_value >= 0
          /\ state.entities[i].entity_type = HIVE => state.entities[i].cooldown >= 0

\* a player's jelly goes down on a step only by an order of that step whose
\* full cost the player had
PaidInFull ==
    sim_hist # <<>> =>
        \A p \in 0..1 :
            sim'.player_jelly[p] < sim.player_jelly[p] =>
                /\ p = 0
                /\ sim_hist'.last \in {SPAWN_ANT, MORPH_SPITTER}
                /\ sim.player_jelly[p] >= ResCost(sim_hist'.last)

\* C29: between ticks no player's jelly, no ant's load, no corpse's jelly
\* and no hive's cooldown is negative, no ant carries more than
\* ANT_CARRY_CAPACITY, and spawning and morphing take jelly only from a
\* player that has the full cost.
C29_ResourcesNonNegative ==
    /\ [](sim_hist # <<>> => ResourcesNonNegative(sim))
    /\ [][PaidInFull]_vars

\* a spawn and a morph were paid for, a spawn was ordered without the jelly
\* for it, the ant carries a full load and the player is left with less than
\* either costs
C29_Witness ==
    /\ sim_hist # <<>>
    /\ sim_hist.paid = {SPAWN_ANT, MORPH_SPITTER}
    /\ SPAWN_ANT \in sim_hist.refused
    /\ \E i \in DOMAIN sim.entities :
          sim.entities[i].entity_type = ANT /\ sim.entities[i].carrying = ANT_CARRY_CAPACITY

\* the corpse is used up, all of it laid down at the hive
C29_CorpseEmptied ==
    /\ sim_hist # <<>>
    /\ ~HasEntity(sim, 2) \/ get_entity(sim, 2).jelly_value = 0
    /\ \A i \in DOMAIN sim.entities : sim.entities[i].carrying = 0
    /\ sim.player_jelly[0] >= 12

\* a hive counts down the cooldown of a spawn
C29_CoolingDown ==
    /\ sim_hist # <<>>
    /\ get_entity(sim, 0).cooldown > 0 /\ get_entity(sim, 0).cooldown < ANT_SPAWN_COOLDOWN

-----------------------------------------------------------------------------
(* SpecShake: the handshake on a channel that loses every copy of some     *)
(* CONNECT and CONNECT_ACK datagrams, MaxLost of each kind at most.  calc  *)
(* counts the datagrams lost of each kind.                                 *)

\* the kind of a datagram, 0 when decode_message refuses it
MessageKind(d) ==
    IF decode_message(d[1]).exc # "" THEN 0 ELSE decode_message(d[1]).msg_type

InitShake ==
    /\ InitNet /\ InitCodecIdle
    /\ sim = <<>> /\ sim_hist = <<>>
    /\ calc = [lost |-> [kind \in {CONNECT, CONNECT_ACK} |-> 0]]

LoseShake(p, d) ==
    /\ d \in net[p]
    /\ MessageKind(d) \in {CONNECT, CONNECT_ACK}
    /\ calc.lost[MessageKind(d)] < MaxLost
    /\ net' = [net EXCEPT ![p] = @ \ {d}]
    /\ calc' = [lost |-> [calc.lost EXCEPT ![MessageKind(d)] = @ + 1]]
    /\ UNCHANGED <<pc, udp, game, ticks_left, recv_age, executed, accepted,
                   hash_log, hash_seen, crash, issued, injected, codecVars, sim, sim_hist>>

NextShake ==
    \E p \in Peers :
        \/ Host(p)
        \/ Connect(p)
        \/ RetryConnect(p)
        \/ GiveUp(p)
        \/ StartGame(p)
        \/ \E d \in net[p] : Deliver(p, d)
        \/ \E d \in net[p] : LoseShake(p, d)
        \/ FrameBegin(p, MaxTickShake, 0)
        \/ TryAdvanceTick(p)
        \/ FrameEnd(p)

\* the processes keep running (the joiner's wait loop retries, the host's
\* loop polls), and a datagram that stays in the channel is handed over at
\* some poll
SpecShake ==
    /\ InitShake /\ [][NextShake]_vars
    /\ \A p \in Peers :
          /\ WF_vars(ProcessStep(p))
          /\ SF_vars(Poll(p))

BothConnected == \A p \in Peers : udp[p].connected

\* the joiner's deadline has passed before a CONNECT_ACK reached it
DeadlinePassed == pc["j"] = "done" /\ ~udp["j"].connected

\* the joiner's wait loop sends CONNECT on a retry
ResendsConnect ==
    (pc["j"] = "waiting" /\ ~udp["j"].connected) =>
        \E o \in udp_connect(Running("j"), "h").out : o[1] = "h" /\ MessageKind(<<o[2], "j">>) = CONNECT

\* the host answers a CONNECT in the channel with CONNECT_ACK to its source,
\* connected already or not
AnswersConnect ==
    \A d \in net["h"] :
        (udp["h"].sock /\ MessageKind(d) = CONNECT) =>
            \E o \in handle_packet(Running("h"), d[1], d[2]).out :
                o[1] = d[2] /\ MessageKind(<<o[2], "h">>) = CONNECT_ACK

\* C30: the joiner re-sends CONNECT while it is not connected, the host
\* answers every CONNECT with CONNECT_ACK, and on a channel that hands over
\* a CONNECT and a later CONNECT_ACK before the joiner's deadline both
\* peers become connected, whatever was lost before.
C30_HandshakeLiveness ==
    /\ [](ResendsConnect /\ AnswersConnect)
    /\ <>BothConnected \/ <>DeadlinePassed

\* both peers are connected after a CONNECT and a CONNECT_ACK were lost
C30_Witness ==
    /\ calc # <<>> /\ calc.lost[CONNECT] > 0 /\ calc.lost[CONNECT_ACK] > 0
    /\ BothConnected
    /\ udp["j"].seed = udp["h"].seed

\* the host is connected and playing, the joiner is not, and no
\* CONNECT_ACK is on its way
C30_AckLost ==
    /\ calc # <<>> /\ calc.lost[CONNECT_ACK] > 0
    /\ udp["h"].connected /\ game["h"].phase = "PLAYING"
    /\ ~udp["j"].connected /\ pc["j"] = "waiting"
    /\ \A d \in net["j"] : MessageKind(d) # CONNECT_ACK

\* ---------------------------------------------------------------------------
\* Corpse decay: a wounded ant of player 1 stands next to an ant of player 0,
\* dies within the first ticks and leaves a corpse; the game then runs past
\* the corpse's whole life.  Player 0 may send its ant to harvest a corpse.
\* ---------------------------------------------------------------------------
DecayScene(hp) ==
    LET hives == add_hive(add_hive(NewGameState(0, 42, open_map(12, 6)), 0, <<2, 2>>),
                          1, <<9, 3>>)
    IN  set_hp(add_ants(add_ants(hives, 0, << <<5, 2>> >>), 1, << <<6, 2>> >>), 3, hp)

DecayHp == {1, 2, 3}

Corpses(state) ==
    {state.entities[i].entity_id :
        i \in {j \in DOMAIN state.entities : state.entities[j].entity_type = CORPSE}}

InitDecay ==
    /\ InitNet /\ InitCodecIdle
    /\ calc = <<>>
    /\ \E hp \in DecayHp :
          /\ sim = DecayScene(hp)
          /\ sim_hist = [born |-> {}, harvested |-> FALSE]

\* the history keeps, for every corpse the death pass created, the tick
\* that created it
Born == {[entity_id |-> id, tick |-> sim.tick] : id \in Corpses(sim') \ Corpses(sim)}

TickDecay ==
    /\ sim_hist # <<>>
    /\ sim.tick < MaxTickDecay
    /\ sim' = advance_tick(sim, <<>>)
    /\ sim_hist' = [sim_hist EXCEPT !.born = @ \cup Born]
    /\ UNCHANGED <<netVars, codecVars, calc>>

IssueDecay ==
    /\ sim_hist # <<>>
    /\ sim.tick <= MaxDecayCmdTick
    /\ \E target \in Corpses(sim) :
          /\ sim' = advance_tick(sim, <<Command(HARVEST, 0, sim.tick, <<2>>, 0, 0, target)>>)
          /\ sim_hist' = [born |-> sim_hist.born \cup Born, harvested |-> TRUE]
    /\ UNCHANGED <<netVars, codecVars, calc>>

NextDecay == TickDecay \/ IssueDecay
SpecDecay == InitDecay /\ [][NextDecay]_vars

\* C31: a corpse created by the death pass of tick t has hp CORPSE_DECAY_TICKS
\* when tick t completes, loses exactly 1 hp in each later tick, and is removed
\* in tick t + CORPSE_DECAY_TICKS, not earlier and not later.
C31_CorpseLifetime ==
    sim_hist # <<>> =>
        \A b \in sim_hist.born :
            LET age == (sim.tick - 1) - b.tick
            IN  IF age < CORPSE_DECAY_TICKS
                THEN /\ HasEntity(sim, b.entity_id)
                     /\ get_entity(sim, b.entity_id).entity_type = CORPSE
                     /\ get_entity(sim, b.entity_id).hp = CORPSE_DECAY_TICKS - age
                ELSE ~HasEntity(sim, b.entity_id)

\* a corpse of the death pass has just been removed, on its last tick
C31_Witness ==
    /\ sim_hist # <<>>
    /\ \E b \in sim_hist.born :
          /\ sim.tick = b.tick + CORPSE_DECAY_TICKS + 1
          /\ ~HasEntity(sim, b.entity_id)

\* a corpse emptied by the harvester is still in the world
C31_EmptyCorpseStays ==
    /\ sim_hist # <<>>
    /\ sim_hist.harvested
    /\ \E b \in sim_hist.born :
          /\ HasEntity(sim, b.entity_id)
          /\ get_entity(sim, b.entity_id).jelly_value = 0

\* ---------------------------------------------------------------------------
\* Health between ticks: two ants of player 0 stand next to a wounded victim
\* of one kind (or to a spitter of player 1); the ants may be ordered to
\* attack it.  The history keeps what the combat pass of the step found dead.
\* ---------------------------------------------------------------------------
add_mantis(state, tile) ==
    create_entity(state, -1, TileCentre(tile[1]), TileCentre(tile[2]), MANTIS,
        [speed |-> MANTIS_SPEED, hp |-> MANTIS_HP, max_hp |-> MANTIS_HP,
         damage |-> MANTIS_DAMAGE, jelly_value |-> MANTIS_JELLY,
         sight |-> WILDLIFE_AGGRO_RANGE])

add_spitter(state, player, tile) ==
    create_entity(state, player, TileCentre(tile[1]), TileCentre(tile[2]), SPITTER,
        [speed |-> SPITTER_SPEED, hp |-> SPITTER_HP, max_hp |-> SPITTER_HP,
         damage |-> SPITTER_DAMAGE, jelly_value |-> SPITTER_CORPSE_JELLY,
         sight |-> SPITTER_SIGHT, attack_range |-> SPITTER_ATTACK_RANGE])

HealthKinds == {ANT, QUEEN, HIVE, SPITTER, APHID, BEETLE, MANTIS}
HealthHp == {1, 2}

HealthVictim(state, kind) ==
    CASE kind = ANT -> add_ant(state, 1, <<6, 2>>)
      [] kind = QUEEN -> add_queen(state, 1, <<6, 2>>)
      [] kind = HIVE -> add_hive(state, 1, <<6, 2>>)
      [] kind = SPITTER -> add_spitter(state, 1, <<6, 2>>)
      [] kind = APHID -> add_aphid(state, <<6, 2>>)
      [] kind = BEETLE -> add_beetle(state, <<6, 2>>)
      [] kind = MANTIS -> add_mantis(state, <<6, 2>>)

HealthScene(kind, hp) ==
    LET hives == add_hive(add_hive(NewGameState(0, 42, open_map(12, 6)), 0, <<2, 2>>),
                          1, <<9, 3>>)
        ants == add_ants(hives, 0, << <<5, 2>>, <<5, 3>> >>)
    IN  set_hp(HealthVictim(ants, kind), 4, hp)

\* the entities the death pass of this tick removes: tick.py runs the steps
\* before combat, combat.py decays the corpses and applies the attacks
before_combat(state, commands) ==
    process_harvesting(apply_separation(update_movement(check_harvest_aggro(
        check_aggro(process_wildlife(process_commands(state, commands)))))))

dead_in_combat(state, commands) ==
    SelectSeq(auto_attack(decay_corpses(before_combat(state, commands))).entities, IsDead)

InitHealth ==
    /\ InitNet /\ InitCodecIdle
    /\ calc = <<>>
    /\ \E kind \in HealthKinds, hp \in HealthHp :
          /\ sim = HealthScene(kind, hp)
          /\ sim_hist = [first_new |-> sim.next_entity_id, dead |-> <<>>, kinds |-> {}]

HealthStep(commands) ==
    /\ sim' = advance_tick(sim, commands)
    /\ \E dead \in {dead_in_combat(sim, commands)} :
          sim_hist' = [first_new |-> before_combat(sim, commands).next_entity_id,
                       dead |-> dead,
                       kinds |-> sim_hist.kinds \cup
                                 {dead[i].entity_type : i \in DOMAIN dead}]
    /\ UNCHANGED <<netVars, codecVars, calc>>

TickHealth ==
    /\ sim_hist # <<>>
    /\ sim.tick < MaxTickHealth
    /\ HealthStep(<<>>)

IssueHealth ==
    /\ sim_hist # <<>>
    /\ sim.tick <= MaxHealthCmdTick
    /\ HasEntity(sim, 4)
    /\ HealthStep(<<Command(ATTACK, 0, sim.tick, <<2, 3>>, 0, 0, 4)>>)

NextHealth == TickHealth \/ IssueHealth
SpecHealth == InitHealth /\ [][NextHealth]_vars

\* the jelly a corpse of the kind holds, by the kind's name
KindJelly(entity_type) ==
    CASE entity_type = ANT -> ANT_CORPSE_JELLY
      [] entity_type = SPITTER -> SPITTER_CORPSE_JELLY
      [] entity_type = APHID -> APHID_JELLY
      [] entity_type = BEETLE -> BEETLE_JELLY
      [] entity_type = MANTIS -> MANTIS_JELLY
      [] OTHER -> 0

LeavesCorpse(entity_type) == entity_type \in {ANT, SPITTER, APHID, BEETLE, MANTIS}

\* the corpses the death pass of the last tick created, and the dead that
\* leave one, as positions in their lists
NewCorpses ==
    {i \in DOMAIN sim.entities :
        /\ sim.entities[i].entity_type = CORPSE
        /\ sim.entities[i].entity_id >= sim_hist.first_new}

Droppers == {k \in DOMAIN sim_hist.dead : LeavesCorpse(sim_hist.dead[k].entity_type)}

CorpseOf(i, k) ==
    /\ sim.entities[i].x = sim_hist.dead[k].x
    /\ sim.entities[i].y = sim_hist.dead[k].y
    /\ sim.entities[i].jelly_value = KindJelly(sim_hist.dead[k].entity_type)

C32_DiedWithoutCorpse ==
    /\ sim_hist # <<>>
    /\ \E k \in DOMAIN sim_hist.dead : ~LeavesCorpse(sim_hist.dead[k].entity_type)
    /\ NewCorpses = {}

\* combat.py lists no SPITTER among the attackable kinds, so no spitter is
\* ever found dead: the spitter's corpse is never put to the test
C32_NoSpitterDies ==
    sim_hist # <<>> => SPITTER \notin sim_hist.kinds

\* every other kind has been found dead by some combat pass
C32_KindsDied ==
    /\ sim_hist # <<>>
    /\ sim_hist.kinds \in {{ANT}, {QUEEN}, {HIVE}, {APHID}, {BEETLE}, {MANTIS}}

\* ---------------------------------------------------------------------------
\* Combat on a snapshot: an ant of player 0 stands between two ants of
\* player 1, at equal distance from both.  The history keeps the state the
\* attack pass read and the state it left.
\* ---------------------------------------------------------------------------
SnapHp == {1, 2, 20}

SnapScene(hp0, hp1) ==
    LET hives == add_hive(add_hive(NewGameState(0, 42, open_map(12, 6)), 0, <<2, 2>>),
                          1, <<9, 3>>)
        ants == add_ants(add_ants(hives, 0, << <<5, 2>> >>), 1, << <<6, 2>>, <<4, 2>> >>)
    IN  set_hp(set_hp(ants, 2, hp0), 3, hp1)

InitSnap ==
    /\ InitNet /\ InitCodecIdle
    /\ calc = <<>>
    /\ \E hp0 \in SnapHp, hp1 \in SnapHp :
          /\ sim = SnapScene(hp0, hp1)
          /\ sim_hist = [pre |-> sim, hit |-> sim]

SnapStep(commands) ==
    /\ sim' = advance_tick(sim, commands)
    /\ \E pre \in {decay_corpses(before_combat(sim, commands))} :
          sim_hist' = [pre |-> pre, hit |-> auto_attack(pre)]
    /\ UNCHANGED <<netVars, codecVars, calc>>

TickSnap ==
    /\ sim_hist # <<>>
    /\ sim.tick < MaxTickSnap
    /\ SnapStep(<<>>)

IssueSnap ==
    /\ sim_hist # <<>>
    /\ sim.tick <= MaxSnapCmdTick
    /\ \E tile \in {<<4, 4>>, <<7, 2>>} :
          SnapStep(<<Command(MOVE, 1, sim.tick, <<4>>, TileCentre(tile[1]),
                             TileCentre(tile[2]), 0)>>)

NextSnap == TickSnap \/ IssueSnap
SpecSnap == InitSnap /\ [][NextSnap]_vars

\* what the snapshot says, entity by entity: the enemies in range of an
\* attacker, the one it should hit, and the damage an entity should take
InRangeOf(state, a) ==
    {t \in DOMAIN state.entities :
        /\ is_enemy(state.entities[a], state.entities[t])
        /\ DistSq(state.entities[a], state.entities[t]) <= ATTACK_RANGE_SQ}

SnapTarget(state, a) ==
    CHOOSE t \in InRangeOf(state, a) :
        \A u \in InRangeOf(state, a) \ {t} :
            \/ DistSq(state.entities[a], state.entities[t]) <
                   DistSq(state.entities[a], state.entities[u])
            \/ /\ DistSq(state.entities[a], state.entities[t]) =
                      DistSq(state.entities[a], state.entities[u])
               /\ state.entities[t].entity_id < state.entities[u].entity_id

Attackers(state) ==
    {a \in DOMAIN state.entities :
        /\ state.entities[a].damage > 0
        /\ damage_this_tick(state.entities[a].damage, state.tick) > 0
        /\ InRangeOf(state, a) # {}}

RECURSIVE SumDamage(_, _)
SumDamage(state, S) ==
    IF S = {} THEN 0
    ELSE LET a == CHOOSE x \in S : TRUE
         IN  damage_this_tick(state.entities[a].damage, state.tick) +
             SumDamage(state, S \ {a})

SnapDamage(state, t) ==
    SumDamage(state, {a \in Attackers(state) : SnapTarget(state, a) = t})

Reversed(seq) == [i \in DOMAIN seq |-> seq[Len(seq) + 1 - i]]

HpById(state) ==
    {<<state.entities[i].entity_id, state.entities[i].hp>> : i \in DOMAIN state.entities}

\* C33: every attacker's target and damage come from the state before any
\* damage of the pass is applied (so two enemies in range of each other both
\* strike, even when they die of it), the hp values are the same when the
\* entities are visited in the opposite order, and among the nearest enemies
\* at equal distance the one with the smaller id is hit.
C33_SnapshotCombat ==
    sim_hist # <<>> =>
        /\ \A t \in DOMAIN sim_hist.pre.entities :
              sim_hist.hit.entities[t].hp =
                  sim_hist.pre.entities[t].hp - SnapDamage(sim_hist.pre, t)
        /\ HpById(auto_attack([sim_hist.pre EXCEPT !.entities = Reversed(@)])) =
               HpById(sim_hist.hit)

\* two enemies have killed each other in one pass
C33_Witness ==
    /\ sim_hist # <<>>
    /\ \E a, b \in Attackers(sim_hist.pre) :
          /\ SnapTarget(sim_hist.pre, a) = b /\ SnapTarget(sim_hist.pre, b) = a
          /\ sim_hist.pre.entities[a].hp > 0 /\ sim_hist.pre.entities[b].hp > 0
          /\ sim_hist.hit.entities[a].hp <= 0 /\ sim_hist.hit.entities[b].hp <= 0

\* an attacker had two nearest enemies at the same distance
C33_Tie ==
    /\ sim_hist # <<>>
    /\ \E a \in Attackers(sim_hist.pre) :
          \E t, u \in InRangeOf(sim_hist.pre, a) :
              /\ t # u
              /\ DistSq(sim_hist.pre.entities[a], sim_hist.pre.entities[t]) =
                     DistSq(sim_hist.pre.entities[a], sim_hist.pre.entities[u])
              /\ SnapTarget(sim_hist.pre, a) \in {t, u}

\* C34: after the combat pass of every tick, rest ticks of the damage
\* schedule included, an entity with damage > 0 that has no enemy within its
\* attack range is not ATTACKING.
C34_AttackingReverts ==
    sim_hist # <<>> =>
        \A a \in DOMAIN sim_hist.hit.entities :
            /\ sim_hist.hit.entities[a].damage > 0
            /\ InRangeOf(sim_hist.pre, a) = {}
            => sim_hist.hit.entities[a].state # ATTACKING

RestTick(state, a) == damage_this_tick(state.entities[a].damage, state.tick) = 0

\* what the code does: the revert happens on the ticks on which the entity
\* would strike, and a rest tick leaves the state of every entity alone
C34_RevertsOnStrikeTicks ==
    sim_hist # <<>> =>
        \A a \in DOMAIN sim_hist.hit.entities :
            /\ sim_hist.hit.entities[a].damage > 0
            /\ InRangeOf(sim_hist.pre, a) = {}
            /\ ~RestTick(sim_hist.pre, a)
            => sim_hist.hit.entities[a].state # ATTACKING

C34_RestTickKeepsState ==
    sim_hist # <<>> =>
        \A a \in DOMAIN sim_hist.hit.entities :
            RestTick(sim_hist.pre, a) =>
                sim_hist.hit.entities[a].state = sim_hist.pre.entities[a].state

\* an ant is ATTACKING after the pass of a rest tick with no enemy in range
C34_AttackingAtNothing ==
    /\ sim_hist # <<>>
    /\ \E a \in DOMAIN sim_hist.hit.entities :
          /\ sim_hist.hit.entities[a].damage > 0
          /\ InRangeOf(sim_hist.pre, a) = {}
          /\ RestTick(sim_hist.pre, a)
          /\ sim_hist.hit.entities[a].state = ATTACKING

\* ---------------------------------------------------------------------------
\* Ant spawning: the hive of player 0 stands in the open, behind rocks that
\* leave one neighbour free, walled in, or wounded next to two enemy ants.
\* SPAWN_ANT is ordered once or twice in a tick, or by the other player.
\* ---------------------------------------------------------------------------
rock_map(width, height, rocks) ==
    [open_map(width, height) EXCEPT
        !.tiles = [i \in DOMAIN @ |->
                      IF <<(i - 1) % width, (i - 1) \div width>> \in rocks THEN ROCK ELSE @[i]]]

Neighbours(tile) ==
    {<<tile[1] + dx, tile[2] + dy>> : dx \in -1..1, dy \in -1..1} \ {tile}

SpawnHiveTile == <<2, 2>>
SpawnScenes == {"open", "west", "walled", "doomed"}
SpawnJelly == {5, 25}

SpawnRocks(scene) ==
    CASE scene = "west" -> Neighbours(SpawnHiveTile) \ {<<1, 2>>}
      [] scene = "walled" -> Neighbours(SpawnHiveTile)
      [] OTHER -> {}

SpawnScene(scene, jelly) ==
    LET hives == add_hive(add_hive(NewGameState(0, 42, rock_map(9, 5, SpawnRocks(scene))),
                                   0, SpawnHiveTile), 1, <<6, 2>>)
    IN  set_jelly(IF scene = "doomed"
                  THEN set_hp(add_ants(hives, 1, << <<3, 2>>, <<2, 3>> >>), 0, 6)
                  ELSE hives,
                  0, jelly)

SpawnOrders == {"one", "two", "foreign"}

SpawnCommands(order, tick) ==
    CASE order = "one" -> <<Command(SPAWN_ANT, 0, tick, <<>>, 0, 0, 0)>>
      [] order = "two" -> <<Command(SPAWN_ANT, 0, tick, <<>>, 0, 0, 0),
                            Command(SPAWN_ANT, 0, tick, <<>>, 0, 0, 0)>>
      [] order = "foreign" -> <<Command(SPAWN_ANT, 1, tick, <<>>, 0, 0, 0)>>

\* the history keeps what the last step saw before its commands (the hive's
\* cooldown, the jelly of player 0, the next entity id), the orders of the
\* step and what they cost, and the ticks whose SPAWN_ANT was accepted
InitSpawn ==
    /\ InitNet /\ InitCodecIdle
    /\ calc = <<>>
    /\ \E scene \in SpawnScenes, jelly \in SpawnJelly :
          /\ sim = SpawnScene(scene, jelly)
          /\ sim_hist = [order |-> "none", cooldown |-> 0, jelly |-> jelly, hive |-> TRUE,
                         paid |-> 0, first_new |-> sim.next_entity_id, accepted |-> {}]

SpawnStep(order, commands) ==
    /\ sim' = advance_tick(sim, commands)
    /\ \E paid \in {sim.player_jelly[0] - process_commands(sim, commands).player_jelly[0]} :
          sim_hist' = [order |-> order,
                       cooldown |-> IF HasEntity(sim, 0) THEN get_entity(sim, 0).cooldown
                                    ELSE 0,
                       jelly |-> sim.player_jelly[0],
                       hive |-> HasEntity(sim, 0),
                       paid |-> paid,
                       first_new |-> sim.next_entity_id,
                       accepted |-> IF paid > 0 THEN sim_hist.accepted \cup {sim.tick}
                                    ELSE sim_hist.accepted]
    /\ UNCHANGED <<netVars, codecVars, calc>>

TickSpawn ==
    /\ sim_hist # <<>>
    /\ sim.tick < MaxTickSpawn
    /\ SpawnStep("none", <<>>)

IssueSpawn ==
    /\ sim_hist # <<>>
    /\ \/ sim.tick <= MaxSpawnCmdTick
       \/ /\ sim.tick >= ANT_SPAWN_COOLDOWN
          /\ sim.tick <= ANT_SPAWN_COOLDOWN + MaxSpawnCmdTick
    /\ \E order \in SpawnOrders : SpawnStep(order, SpawnCommands(order, sim.tick))

NextSpawn == TickSpawn \/ IssueSpawn
SpecSpawn == InitSpawn /\ [][NextSpawn]_vars

\* the orders of the last step held a SPAWN_ANT the claim calls accepted
SpawnAccepted ==
    /\ sim_hist.order \in {"one", "two"}
    /\ sim_hist.hive
    /\ sim_hist.cooldown = 0
    /\ sim_hist.jelly >= ANT_SPAWN_COST

NewAnts ==
    {i \in DOMAIN sim.entities :
        /\ sim.entities[i].entity_type = ANT
        /\ sim.entities[i].entity_id >= sim_hist.first_new}

TileOf(e) == <<e.x \div MILLI_TILES_PER_TILE, e.y \div MILLI_TILES_PER_TILE>>

WalkableNeighbours(state, tile) ==
    {n \in Neighbours(tile) : is_walkable(state.tilemap, n[1], n[2])}

SpawnedBesideHive(i) ==
    LET ant == sim.entities[i]
        hive == get_entity(sim, 0)
    IN  /\ ant.player_id = hive.player_id
        /\ IF WalkableNeighbours(sim, TileOf(hive)) = {}
           THEN ant.x = hive.x /\ ant.y = hive.y
           ELSE /\ TileOf(ant) \in WalkableNeighbours(sim, TileOf(hive))
                /\ ant.x = TileCentre(TileOf(ant)[1]) /\ ant.y = TileCentre(TileOf(ant)[2])

\* the tick that has just run is the ANT_SPAWN_COOLDOWN-th tick of an
\* accepted SPAWN_ANT, counting the command's own tick
SpawnDue == ((sim.tick - 1) - (ANT_SPAWN_COOLDOWN - 1)) \in sim_hist.accepted

\* C35: an accepted SPAWN_ANT (own hive, cooldown 0, jelly >= ANT_SPAWN_COST)
\* costs ANT_SPAWN_COST once and, if the hive survives, gives exactly one ant
\* of the hive's owner beside the hive (at the hive if no neighbour is
\* walkable) during the ANT_SPAWN_COOLDOWN-th tick counting the command's
\* own; any other SPAWN_ANT, a second one in the same tick included, costs
\* nothing and spawns nothing.
C35_SpawnAnt ==
    sim_hist # <<>> =>
        /\ sim_hist.paid = IF SpawnAccepted THEN ANT_SPAWN_COST ELSE 0
        /\ IF SpawnDue /\ HasEntity(sim, 0)
           THEN /\ Cardinality(NewAnts) = 1
                /\ \A i \in NewAnts : SpawnedBesideHive(i)
           ELSE NewAnts = {}

\* an ant has come out of the walled-in hive, at the hive
C35_Witness ==
    /\ sim_hist # <<>>
    /\ SpawnDue /\ HasEntity(sim, 0)
    /\ WalkableNeighbours(sim, TileOf(get_entity(sim, 0))) = {}
    /\ NewAnts # {}

\* an ant has come out beside the hive
C35_SpawnedBeside ==
    /\ sim_hist # <<>>
    /\ SpawnDue /\ HasEntity(sim, 0)
    /\ WalkableNeighbours(sim, TileOf(get_entity(sim, 0))) # {}
    /\ NewAnts # {}

\* two SPAWN_ANT in one tick were paid for once
C35_SecondRefused ==
    /\ sim_hist # <<>>
    /\ sim_hist.order = "two"
    /\ sim_hist.paid = ANT_SPAWN_COST

\* a SPAWN_ANT was refused while the hive was cooling down
C35_RefusedCoolingDown ==
    /\ sim_hist # <<>>
    /\ sim_hist.order \in {"one", "two"}
    /\ sim_hist.cooldown > 0
    /\ sim_hist.jelly >= ANT_SPAWN_COST
    /\ sim_hist.paid = 0

\* the hive died after it was paid and before its ant was due
C35_HiveDied ==
    /\ sim_hist # <<>>
    /\ SpawnDue /\ ~HasEntity(sim, 0)

\* ---------------------------------------------------------------------------
\* Rock: a wall of rock from top to bottom parts the map; two ants of
\* player 0 stand west of it and are sent to a tile on their side, to a tile
\* of the wall, or to a tile east of the wall that no path leads to.
\* ---------------------------------------------------------------------------
WallRocks == {<<4, 1>>, <<4, 2>>, <<4, 3>>}

RockScene ==
    LET hives == add_hive(add_hive(NewGameState(0, 42, rock_map(9, 5, WallRocks)),
                                   0, <<1, 1>>), 1, <<7, 3>>)
    IN  add_ants(hives, 0, << <<2, 2>>, <<2, 3>> >>)

RockTargets == {<<3, 1>>, <<4, 2>>, <<6, 2>>}
RockMovers == {<<2>>, <<3>>, <<2, 3>>}

InitRock ==
    /\ InitNet /\ InitCodecIdle
    /\ calc = <<>>
    /\ sim = RockScene
    /\ sim_hist = [sent |-> {}]

TickRock ==
    /\ sim_hist # <<>>
    /\ sim.tick < MaxTickRock
    /\ sim' = advance_tick(sim, <<>>)
    /\ UNCHANGED <<netVars, codecVars, calc, sim_hist>>

IssueRock ==
    /\ sim_hist # <<>>
    /\ sim.tick <= MaxRockCmdTick
    /\ \E tile \in RockTargets, ids \in RockMovers :
          /\ sim' = advance_tick(sim, <<Command(MOVE, 0, sim.tick, ids, TileCentre(tile[1]),
                                             TileCentre(tile[2]), 0)>>)
          /\ sim_hist' = [sent |-> sim_hist.sent \cup {tile}]
    /\ UNCHANGED <<netVars, codecVars, calc>>

NextRock == TickRock \/ IssueRock
SpecRock == InitRock /\ [][NextRock]_vars

OnWalkable(state, e) == is_walkable(state.tilemap, TileOf(e)[1], TileOf(e)[2])

\* C36: if every entity with speed > 0 starts on a walkable tile, then after
\* every tick, whatever the commands (targets that no path leads to
\* included) and the separation pushes, every entity with speed > 0 is on a
\* walkable tile.
C36_NeverOnRock ==
    sim_hist # <<>> =>
        \A i \in DOMAIN sim.entities :
            sim.entities[i].speed > 0 => OnWalkable(sim, sim.entities[i])

\* what the code keeps: an entity that follows a path of find_path is on a
\* walkable tile, and the ants stay off the rock as long as no target
\* beyond the wall was ordered
C36_OnWalkableAlongPath ==
    sim_hist # <<>> =>
        \A i \in DOMAIN sim.entities :
            sim.entities[i].speed > 0 /\ sim.entities[i].path # <<>>
            => OnWalkable(sim, sim.entities[i])

C36_OnWalkableWithinReach ==
    sim_hist # <<>> /\ <<6, 2>> \notin sim_hist.sent =>
        \A i \in DOMAIN sim.entities :
            sim.entities[i].speed > 0 => OnWalkable(sim, sim.entities[i])

\* an ant sent beyond the wall stands on a tile of the wall
C36_AntOnRock ==
    /\ sim_hist # <<>>
    /\ sim_hist.sent = {<<6, 2>>}
    /\ \E i \in DOMAIN sim.entities :
          /\ sim.entities[i].entity_type = ANT
          /\ TileOf(sim.entities[i]) \in WallRocks

\* ---------------------------------------------------------------------------
\* GameState.compute_hash on the entities of the simulation: the bytes fed to
\* sha256 stand for the digest; int.to_bytes raises OverflowError on a value
\* its width and signedness cannot hold.
\* ---------------------------------------------------------------------------
to_bytes(value, length) ==
    IF value < 0 THEN Raise("OverflowError")
    ELSE IF length = 1
         THEN IF value <= 255 THEN Ok(<<value>>) ELSE Raise("OverflowError")
         ELSE Ok(U32Bytes(value))

to_bytes_signed(value) == PackI32(value)

entity_hash_fields(e) ==
    << to_bytes(e.entity_id, 4), to_bytes(e.entity_type, 1), to_bytes(e.player_id, 4),
       to_bytes_signed(e.x), to_bytes_signed(e.y),
       to_bytes_signed(e.target_x), to_bytes_signed(e.target_y),
       to_bytes(e.speed, 4), to_bytes(e.hp, 4), to_bytes(e.max_hp, 4),
       to_bytes(e.damage, 4), to_bytes(e.state, 1), to_bytes(e.carrying, 4),
       to_bytes(e.jelly_value, 4) >>

\* the chunks handed to h.update, in order; the first exception wins
hash_updates(fields) ==
    IF FirstExc(fields) # "" THEN Raise(FirstExc(fields))
    ELSE Ok([k \in DOMAIN fields |-> fields[k].val])

state_hash_header(state) ==
    << to_bytes(state.tick, 4),
       Ok(<<state.rng_state[1] \div 256, state.rng_state[1] % 256,
            state.rng_state[2] \div 256, state.rng_state[2] % 256>>),
       to_bytes(Len(state.entities), 4) >>

state_compute_hash(state) ==
    LET header == hash_updates(state_hash_header(state))
        entities == [i \in DOMAIN state.entities |->
                        hash_updates(entity_hash_fields(state.entities[i]))]
    IN  IF header.exc # "" THEN header
        ELSE IF FirstExc(entities) # "" THEN Raise(FirstExc(entities))
        ELSE Ok(<<header.val, [i \in DOMAIN entities |-> entities[i].val]>>)

Hives(state) ==
    {i \in DOMAIN state.entities : state.entities[i].entity_type = HIVE}

with_cooldown(state, i, cooldown) == [state EXCEPT !.entities[i].cooldown = cooldown]

\* C37: two states that are identical except for the cooldown of one hive
\* produce different hash inputs.
C37_HashCoversCooldown ==
    sim_hist # <<>> =>
        \A i \in Hives(sim) :
            \A cooldown \in (0..ANT_SPAWN_COOLDOWN) \ {sim.entities[i].cooldown} :
                state_compute_hash(with_cooldown(sim, i, cooldown)) # state_compute_hash(sim)

\* what the code does: no cooldown changes the hash input, while the hp of a
\* hive does
C37_CooldownNotHashed ==
    sim_hist # <<>> =>
        \A i \in Hives(sim) :
            \A cooldown \in 0..ANT_SPAWN_COOLDOWN :
                state_compute_hash(with_cooldown(sim, i, cooldown)) = state_compute_hash(sim)

C37_HashCoversHp ==
    sim_hist # <<>> /\ state_compute_hash(sim).exc = "" =>
        \A i \in Hives(sim) :
            state_compute_hash([sim EXCEPT !.entities[i].hp = @ + 1]) # state_compute_hash(sim)

\* the hive is cooling down after a SPAWN_ANT and the hash input is the one
\* of the state with the hive at rest
C37_DivergenceUnseen ==
    /\ sim_hist # <<>>
    /\ HasEntity(sim, 0)
    /\ get_entity(sim, 0).cooldown > 0
    /\ state_compute_hash(sim).exc = ""
    /\ state_compute_hash(with_cooldown(sim, EntityIndex(sim.entities, 0), 0)) =
           state_compute_hash(sim)

\* C40: compute_hash returns a digest in every state reachable from the
\* game's setup, which always holds neutral entities (owner -1): every field
\* it encodes as an unsigned integer is non-negative and in range.
C40_HashTotal ==
    sim_hist # <<>> => state_compute_hash(sim).exc = ""

Neutrals(state) ==
    {i \in DOMAIN state.entities : state.entities[i].player_id = -1}

\* what the code does: the owner is encoded unsigned, so compute_hash raises
\* exactly when the state holds a neutral entity; no other field is the cause
C40_RaisesOnNeutrals ==
    sim_hist # <<>> =>
        (state_compute_hash(sim).exc = "OverflowError" <=> Neutrals(sim) # {})

C40_OtherFieldsInRange ==
    sim_hist # <<>> =>
        \A i \in DOMAIN sim.entities :
            hash_updates(entity_hash_fields([sim.entities[i] EXCEPT !.player_id = 0])).exc = ""

\* a state with a hive site, a corpse or wildlife, on which compute_hash raises
C40_HashRaises ==
    /\ sim_hist # <<>>
    /\ \E i \in Neutrals(sim) : sim.entities[i].entity_type \in {HIVE_SITE, CORPSE, APHID, BEETLE, MANTIS}
    /\ state_compute_hash(sim).exc = "OverflowError"

\* ---------------------------------------------------------------------------
\* Drift of the two peers under the lockstep loop (specification Spec)
\* ---------------------------------------------------------------------------
Drift ==
    IF game["h"].state.tick >= game["j"].state.tick
    THEN game["h"].state.tick - game["j"].state.tick
    ELSE game["j"].state.tick - game["h"].state.tick

\* C38: in every reachable state of two peers running the lockstep loop the
\* simulation ticks of the peers differ by at most INPUT_DELAY_TICKS.
C38_BoundedDrift == Drift <= INPUT_DELAY_TICKS

\* one peer is INPUT_DELAY_TICKS ticks ahead of the other, which has run a tick
C38_Witness ==
    /\ Drift = INPUT_DELAY_TICKS
    /\ game["h"].state.tick > 0
    /\ game["j"].state.tick > 0

\* ---------------------------------------------------------------------------
\* Published and executed commands: the lockstep loop with an input layer
\* that produces up to MaxPubIssue commands on the host and none on the joiner.  A datagram stays in
\* flight once sent, so the COMMANDS frames in net are all that was published.
\* ---------------------------------------------------------------------------
NextPub ==
    \E p \in Peers :
        \/ Host(p)
        \/ Connect(p)
        \/ RetryConnect(p)
        \/ StartGame(p)
        \/ \E d \in net[p] : Deliver(p, d)
        \/ FrameBegin(p, MaxTick, IF p = "h" THEN MaxPubIssue ELSE 0)
        \/ TryAdvanceTick(p)
        \/ FrameEnd(p)

SpecPub == Init /\ [][NextPub]_vars

\* the command lists peer p has published for the tick
PublishedLists(p, tick) ==
    {decode_commands(decode_message(d[1]).payload).commands :
        d \in {x \in net[Other(p)] : x[2] = p /\ CommandsTick(x) = tick}}

CommandsOf(p, cmds) == SelectSeq(cmds, LAMBDA c : c.player_id = game[p].player_id)

ExecutedAsPublished(p, q, i) ==
    \E list \in PublishedLists(q, executed[p][i].tick) :
        /\ PublishedLists(q, executed[p][i].tick) = {list}
        /\ CommandsOf(q, executed[p][i].cmds) = SortByKey(list)

\* C39: the own commands a peer executes at a tick are the list it published
\* for the tick; a published list that has not run yet is still filed
\* locally, unchanged (nothing is filed under a published tick, nothing
\* published is dropped); every command runs at its tagged tick, once, on
\* both peers.
C39_PublishedIsExecuted ==
    \A p \in Peers :
        /\ \A i \in 1..Len(executed[p]) :
              /\ ExecutedAsPublished(p, p, i)
              /\ ExecutedAsPublished(p, Other(p), i)
              /\ \A k \in DOMAIN executed[p][i].cmds :
                    executed[p][i].cmds[k].tick = executed[p][i].tick
              /\ \A j \in 1..Len(executed[p]) :
                    executed[p][j].tick = executed[p][i].tick => j = i
        /\ \A tick \in game[p].state.tick..MaxTick :
              PublishedLists(p, tick) \subseteq
                  {DictGet(game[p].pending_commands, tick, <<>>)}

\* both peers have run a tick for which one of them published two commands
C39_Witness ==
    \E p \in Peers :
        \E i \in 1..Len(executed[p]) :
            /\ Len(CommandsOf(p, executed[p][i].cmds)) = MaxPubIssue
            /\ Len(executed[Other(p)]) >= i
            /\ executed[Other(p)][i].cmds = executed[p][i].cmds

\* a peer has filed a command after an earlier frame filed one for the same tick
C39_FiledTwice ==
    \E p \in Peers :
        \E tick \in DOMAIN game[p].pending_commands :
            /\ Len(game[p].pending_commands[tick]) = MaxPubIssue
            /\ PublishedLists(p, tick) = {}

=============================================================================
